---- MODULE Spec2Model ----
(***************************************************************************)
(* Speech-segment detection and timeline alignment of aiSpeech_2026.       *)
(*                                                                         *)
(* The model follows AudioSplitter.split_audio (scripts/audio_spiltter.py):*)
(*   1. TimestampManager.create_session_metadata                           *)
(*   2. VADProcessor._detect_webrtc        (frame scan)                    *)
(*   3. AudioSplitter._split_long_segments                                 *)
(*   4. AudioSplitter._save_chunks                                         *)
(*   5. TimestampManager.create_chunks_timeline                            *)
(* and VADPreprocessor.split_long_segments (scripts/vad_preprocess.py).    *)
(*                                                                         *)
(* Times are integers in milliseconds unless a name says otherwise.        *)
(***************************************************************************)
EXTENDS Integers, Naturals, Sequences, FiniteSets, TLC

VARIABLES
    pc,                       \* position inside AudioSplitter.split_audio
    min_speech_duration_ms,   \* VADProcessor.min_speech_duration_ms
    min_silence_duration_ms,  \* VADProcessor.min_silence_duration_ms
    max_chunk_duration_ms,    \* AudioSplitter.max_chunk_duration_ms
    session_metadata,         \* result of create_session_metadata
    frames,                   \* _detect_webrtc: list of frame decisions
    scan_i,                   \* _detect_webrtc: loop index i (0-based)
    in_speech,                \* _detect_webrtc: in_speech
    speech_start,             \* _detect_webrtc: speech_start
    segments,                 \* _detect_webrtc: segments (dicts start/end)
    split_segments,           \* split_audio: split_segments
    chunks_info,              \* split_audio: chunks_info
    timeline,                 \* create_chunks_timeline: returned timeline
    timeline_file,            \* content of chunks_timeline.json (<<>> = absent)
    vp_pc,                    \* position inside VADPreprocessor.process_audio_file
    vp_max_chunk_length_ms,   \* int(VADPreprocessor.max_chunk_length * 1000)
    vp_segments,              \* process_audio_file: segments (tuples)
    align_pc,                 \* position of the caller of the Result Aligner
    stt_results,              \* align_stt_results_with_timeline: stt_results
    aligned_results,          \* align_stt_results_with_timeline: returned dict
    query,                    \* query_by_time_range: (start_time, end_time)
    query_results,            \* query_by_time_range: returned list
    audio_file,               \* create_session_metadata: the file audio_file names
    session_id_arg,           \* create_session_metadata: session_id (<<>> is
                              \* None, <<s>> is the string s)
    session_error,            \* exception create_session_metadata left with
    uuid_issued,              \* number of uuid.uuid4() calls so far
    stats,                    \* split_audio: the stats dict returned
    vp_requested,             \* VADPreprocessor.__init__: vad_method argument
    vp_available,             \* WEBRTC_AVAILABLE, SILERO_AVAILABLE, and whether
                              \* torch.hub.load succeeds
    vp_method,                \* VADPreprocessor.vad_method
    vp_min_speech_ms,         \* VADPreprocessor.min_speech_duration * 1000
    vp_frames,                \* detect_speech_segments_webrtc: speech_frames
    vp_result,                \* process_audio_file: the dict returned
    tl_calls,                 \* create_chunks_timeline calls made on one
                              \* output directory
    tl_raised,                \* exception the last of these calls left with
    tl_prev,                  \* arguments and return value of the call that
                              \* returned before the last one
    cfg_model_arg,            \* get_optimal_config: model
    cfg_region_arg,           \* get_optimal_config: preferred_region
    cfg_result,               \* get_optimal_config: the tuple returned
    gstt_pc,                  \* GoogleSTTModel: "none" before construction, then the
                              \* position of the transcribe_file call
    gstt_model,               \* self.model
    gstt_location,            \* self.location
    gstt_api_endpoint,        \* self.api_endpoint
    gstt_config_manager,      \* self.config_manager is not None
    gstt_env,                 \* what the service answers in each region during the call
    gstt_stack,               \* the _try_fallback_regions activations, outermost first
    gstt_attempts,            \* the regions client.recognize was called in, in order
    gstt_result,              \* the dict being returned
    gstt_before,              \* (location, api_endpoint) when transcribe_file was called
    gstt_calls,               \* transcribe_file calls made on the model
    batch_pc,                 \* BatchInference.run: "none", "scan", "loop", "returned"
                              \* or "raised"
    batch_model_type,         \* self.model_type
    batch_files,              \* audio_files after sorted(set(...))
    batch_outcomes,           \* what recognition did for each file handled so far
    batch_results,            \* results, as the items of the dict in order
    batch_txt,                \* the .txt files of output_dir: (stem, content) items
    success_count,            \* success_count of run
    error_count,              \* error_count of run
    batch_json,               \* the results JSON file: its metadata and whether the
                              \* dump went through
    dir_pc,                   \* process_directory: "none", "scan", "loop", "returned" or
                              \* "raised"
    dir_files,                \* sorted(audio_files)
    dir_results,              \* results: the dicts of process_audio_file so far
    dir_report_file,          \* vad_report.json
    dir_return                \* the dict process_directory returned

vars == <<pc, min_speech_duration_ms, min_silence_duration_ms,
          max_chunk_duration_ms, session_metadata, frames, scan_i, in_speech,
          speech_start, segments, split_segments, chunks_info, timeline,
          timeline_file, vp_pc, vp_max_chunk_length_ms, vp_segments,
          align_pc, stt_results, aligned_results, query, query_results,
          audio_file, session_id_arg, session_error, uuid_issued, stats,
          vp_requested, vp_available, vp_method, vp_min_speech_ms, vp_frames,
          vp_result, tl_calls, tl_raised, tl_prev,
          cfg_model_arg, cfg_region_arg, cfg_result,
          gstt_pc, gstt_model, gstt_location, gstt_api_endpoint, gstt_config_manager, gstt_env, gstt_stack, gstt_attempts, gstt_result, gstt_before, gstt_calls,
          batch_pc, batch_model_type, batch_files, batch_outcomes, batch_results, batch_txt, success_count, error_count, batch_json,
          dir_pc, dir_files, dir_results, dir_report_file, dir_return>>

None == <<>>

(***************************************************************************)
(* Bounds of the model.                                                    *)
(***************************************************************************)
MaxFrames == 6        \* longest frame-decision stream
MaxSplitDur == 64     \* longest interval handed to the splitter alone
MaxSplitMax == 10     \* largest maximum chunk duration tried there
MaxTimelineLen == 2   \* longest chunk list handed to the timeline builder alone
MaxResults == 2       \* most items of stt_results handed to the aligner
MaxSessionCalls == 2  \* most identifiers drawn by create_session_metadata calls
MaxTimelineCalls == 3 \* most create_chunks_timeline calls on one directory
MaxSttDepth == 4      \* most nested _try_fallback_regions activations (the
                      \* interpreter's recursion limit)
MaxSttCalls == 2      \* most transcribe_file calls on one GoogleSTTModel
MaxBatchChunks == 2   \* most chunks the splitter wrote into a batch's input
MaxDirFiles == 3      \* most .wav files in a directory given to process_directory

(***************************************************************************)
(* IEEE-754 binary64 arithmetic of the splitter.                           *)
(*                                                                         *)
(* The splitter computes chunk_size = duration / num_chunks as a float and *)
(* every boundary as int(i * chunk_size).  Both the division and the       *)
(* product are rounded to 53 significant bits.  For the integer operands   *)
(* used here (all far below 2^31) the result is determined exactly by:     *)
(*   - if i*d is not a multiple of n, the rounding errors (relative 2^-52) *)
(*     are far smaller than the distance 1/n to the next integer, so       *)
(*     int(...) = floor(i*d/n);                                            *)
(*   - if n divides d the quotient is exact;                               *)
(*   - otherwise let q = i*d/n (an integer), 2^p <= d/n < 2^(p+1), and     *)
(*     r = (d * 2^(52-p)) mod n the remainder of the mantissa division.    *)
(*     The quotient is rounded up when 2r > n (then the product is >= q),  *)
(*     and down by (r/n) ulp otherwise; the product is then q minus        *)
(*     i*(r/n)*2^(p-52), which rounds to a float below q exactly when it   *)
(*     is more than half a spacing below q (ties go to q, whose mantissa   *)
(*     is even); the spacing below q is 2^(s-52), or 2^(s-53) when         *)
(*     q = 2^s.  int() then truncates to q - 1.                            *)
(***************************************************************************)
RECURSIVE Pow2(_)
Pow2(k) == IF k <= 0 THEN 1 ELSE 2 * Pow2(k - 1)

\* largest p >= 0 with 2^p * b <= a   (a >= b >= 1)
RECURSIVE FloorLog2Ratio(_, _)
FloorLog2Ratio(a, b) == IF 2 * b <= a THEN 1 + FloorLog2Ratio(a, 2 * b) ELSE 0

\* 2^e mod n
RECURSIVE Pow2Mod(_, _)
Pow2Mod(e, n) == IF e <= 0 THEN 1 % n ELSE (2 * Pow2Mod(e - 1, n)) % n

IsPow2(q) == q = Pow2(FloorLog2Ratio(q, 1))

\* remainder of the 53-bit mantissa division of d / n
MantissaRemainder(d, n) ==
    ((d % n) * Pow2Mod(52 - FloorLog2Ratio(d, n), n)) % n

\* TRUE iff float(i * float(d / n)) < i*d/n when the latter is an integer
ProductFallsShort(i, d, n) ==
    LET q == (i * d) \div n
        p == FloorLog2Ratio(d, n)
        s == FloorLog2Ratio(q, 1)
        r == MantissaRemainder(d, n)
        k == IF IsPow2(q) THEN 4 ELSE 2
    IN  /\ r # 0
        /\ 2 * r < n
        /\ k * i * r > n * Pow2(s - p)

\* int(i * chunk_size) with chunk_size = duration_ms / num_chunks (floats)
IntOfProduct(i, duration_ms, num_chunks) ==
    LET exact == (i * duration_ms) \div num_chunks
    IN  IF i = 0 \/ (i * duration_ms) % num_chunks # 0
           \/ duration_ms % num_chunks = 0
        THEN exact
        ELSE IF ProductFallsShort(i, duration_ms, num_chunks)
             THEN exact - 1
             ELSE exact

\* variant: the quotient truncated instead of rounded up
NumChunksFloor(duration_ms, max_ms) == duration_ms \div max_ms

\* variant: "quotient plus one" in place of the ceiling
NumChunksPlusOne(duration_ms, max_ms) == (duration_ms \div max_ms) + 1

\* int(np.ceil(duration_ms / max_ms)): the float quotient of two small
\* integers is exact when it is an integer and otherwise stays strictly
\* between the neighbouring integers, so the ceiling is the exact one.
NumChunks(duration_ms, max_ms) == (duration_ms + max_ms - 1) \div max_ms

(***************************************************************************)
(* Segment Splitter.                                                       *)
(***************************************************************************)
\* chunk_start = start_ms + int(i * chunk_size)          (i = 0 .. n-1)
ChunkStart(start_ms, i, duration_ms, num_chunks) ==
    start_ms + IntOfProduct(i, duration_ms, num_chunks)

\* variant: the end boundary rounded up instead of truncated
ChunkEndCeil(start_ms, i, duration_ms, num_chunks) ==
    start_ms + (((i + 1) * duration_ms + num_chunks - 1) \div num_chunks)

\* chunk_end = start_ms + int((i + 1) * chunk_size)
ChunkEnd(start_ms, i, duration_ms, num_chunks) ==
    start_ms + IntOfProduct(i + 1, duration_ms, num_chunks)

\* the body of the for-loop of _split_long_segments for one segment
SplitOne(seg, max_ms) ==
    LET start_ms == seg.start
        duration_ms == seg.end - seg.start
        num_chunks == NumChunks(duration_ms, max_ms)
    IN  IF duration_ms <= max_ms
        THEN <<seg>>
        ELSE [k \in 1..num_chunks |->
                [start |-> ChunkStart(start_ms, k - 1, duration_ms, num_chunks),
                 end   |-> ChunkEnd(start_ms, k - 1, duration_ms, num_chunks)]]

\* AudioSplitter._split_long_segments
RECURSIVE SplitLongSegments(_, _)
SplitLongSegments(segs, max_ms) ==
    IF segs = <<>> THEN <<>>
    ELSE SplitOne(Head(segs), max_ms) \o SplitLongSegments(Tail(segs), max_ms)

\* the body of the for-loop of VADPreprocessor.split_long_segments; a
\* segment is a tuple (start_ms, end_ms)
VpSplitOne(seg, max_length_ms) ==
    LET start_ms == seg[1]
        duration == seg[2] - seg[1]
        num_chunks == NumChunks(duration, max_length_ms)
    IN  IF duration <= max_length_ms
        THEN <<seg>>
        ELSE [k \in 1..num_chunks |->
                <<start_ms + IntOfProduct(k - 1, duration, num_chunks),
                  start_ms + IntOfProduct(k, duration, num_chunks)>>]

\* VADPreprocessor.split_long_segments
RECURSIVE VpSplitLongSegments(_, _)
VpSplitLongSegments(segs, max_length_ms) ==
    IF segs = <<>> THEN <<>>
    ELSE VpSplitOne(Head(segs), max_length_ms)
            \o VpSplitLongSegments(Tail(segs), max_length_ms)

\* chunk_id = f"{i:03d}", as its three decimal digits
ChunkId(i) == <<(i \div 100) % 10, (i \div 10) % 10, i % 10>>

\* variant: offset_ms taken from a running total of the saved durations
\* (the unused current_offset_ms of _save_chunks) instead of seg['start']
RECURSIVE SavedDuration(_, _)
SavedDuration(segs, k) ==
    IF k = 0 THEN 0
    ELSE SavedDuration(segs, k - 1) + (segs[k].end - segs[k].start)

SaveChunksCumulative(segs) ==
    [k \in 1..Len(segs) |->
        [chunk_id    |-> ChunkId(k),
         offset_ms   |-> SavedDuration(segs, k - 1),
         duration_ms |-> segs[k].end - segs[k].start,
         is_speech   |-> TRUE,
         audio_file  |-> <<"chunk_", ChunkId(k), ".wav">>]]

\* AudioSplitter._save_chunks: the chunk_info records, in segment order
SaveChunks(segs) ==
    [k \in 1..Len(segs) |->
        [chunk_id    |-> ChunkId(k),
         offset_ms   |-> segs[k].start,
         duration_ms |-> segs[k].end - segs[k].start,
         is_speech   |-> TRUE,
         audio_file  |-> <<"chunk_", ChunkId(k), ".wav">>]]

(***************************************************************************)
(* Wall-clock time.                                                        *)
(*                                                                         *)
(* A datetime is [day, sec, us]: proleptic Gregorian ordinal of the date,  *)
(* second of the day, microsecond of the second (the normalised fields     *)
(* datetime arithmetic works on).  A formatted timestamp                   *)
(* strftime("%Y-%m-%d %H:%M:%S.%f")[:-3] is [date, hh, mm, ss, ms]; the    *)
(* date part stays the ordinal, which the calendar renders one-to-one and  *)
(* in order.                                                               *)
(***************************************************************************)
\* dt.strftime("%Y-%m-%d %H:%M:%S.%f")[:-3]
FormatMs(dt) ==
    [date |-> dt.day,
     hh   |-> dt.sec \div 3600,
     mm   |-> (dt.sec \div 60) % 60,
     ss   |-> dt.sec % 60,
     ms   |-> dt.us \div 1000]

\* the time-of-day digits of a formatted timestamp read as one number
MsOfStamp(t) == ((t.hh * 60 + t.mm) * 60 + t.ss) * 1000 + t.ms

\* dt + timedelta(milliseconds=ms)
AddMilliseconds(dt, ms) ==
    LET total_us == dt.us + (ms % 1000) * 1000
        total_s  == dt.sec + (ms \div 1000) + (total_us \div 1000000)
    IN  [day |-> dt.day + (total_s \div 86400),
         sec |-> total_s % 86400,
         us  |-> total_us % 1000000]

\* dt.timestamp(): seconds since 1970-01-01 (ordinal 719163) with the
\* microseconds as the fraction; the zone's fixed UTC offset cancels
\* against the one fromtimestamp applies and is left out
Timestamp(dt) == [s |-> (dt.day - 719163) * 86400 + dt.sec, us |-> dt.us]

\* datetime.fromtimestamp(t)
FromTimestamp(t) ==
    [day |-> 719163 + (t.s \div 86400), sec |-> t.s % 86400, us |-> t.us]

\* the metadata dict built by create_session_metadata (the fields the
\* timeline reads)
SessionMetadata(session_id, session_start) ==
    [session_id         |-> session_id,
     session_start_time |-> FormatMs(session_start),
     session_start_unix |-> Timestamp(session_start)]

(***************************************************************************)
(* Session Start Resolver (create_session_metadata).                       *)
(*                                                                         *)
(* A file stem is a sequence of one-character strings.                     *)
(***************************************************************************)
RECURSIVE SplitLoop(_, _, _)
SplitLoop(chars, sep, current) ==
    IF chars = <<>> THEN <<current>>
    ELSE IF Head(chars) = sep
    THEN <<current>> \o SplitLoop(Tail(chars), sep, <<>>)
    ELSE SplitLoop(Tail(chars), sep, Append(current, Head(chars)))

\* filename.split('_')
Split(chars, sep) == SplitLoop(chars, sep, <<>>)

\* s[a:b]
Slice(s, a, b) ==
    [k \in 1..(IF b < Len(s) THEN b - a ELSE IF a < Len(s) THEN Len(s) - a
               ELSE 0) |-> s[a + k]]

DigitChars == <<"0", "1", "2", "3", "4", "5", "6", "7", "8", "9">>

IsDigit(c) == \E d \in 1..10 : DigitChars[d] = c

DigitValue(c) == (CHOOSE d \in 1..10 : DigitChars[d] = c) - 1

RECURSIVE DecimalValue(_)
DecimalValue(chars) ==
    IF chars = <<>> THEN 0
    ELSE DecimalValue(SubSeq(chars, 1, Len(chars) - 1)) * 10
         + DigitValue(chars[Len(chars)])

\* str.strip() for blanks
RECURSIVE Strip(_)
Strip(chars) ==
    IF chars = <<>> THEN chars
    ELSE IF Head(chars) = " " THEN Strip(Tail(chars))
    ELSE IF chars[Len(chars)] = " "
    THEN Strip(SubSeq(chars, 1, Len(chars) - 1))
    ELSE chars

\* int(chars): blanks around the number and one sign are accepted, then
\* at least one digit and digits only; ok = FALSE stands for ValueError
PyInt(chars) ==
    LET stripped == Strip(chars)
        signed   == stripped # <<>> /\ Head(stripped) \in {"+", "-"}
        digits   == IF signed THEN Tail(stripped) ELSE stripped
        ok       == digits # <<>> /\ \A k \in 1..Len(digits) : IsDigit(digits[k])
    IN  [ok    |-> ok,
         value |-> IF ~ok THEN 0
                   ELSE IF signed /\ Head(stripped) = "-"
                   THEN 0 - DecimalValue(digits)
                   ELSE DecimalValue(digits)]

IsLeap(year) == year % 4 = 0 /\ (year % 100 # 0 \/ year % 400 = 0)

DaysInMonth(year, month) ==
    IF month = 2 THEN (IF IsLeap(year) THEN 29 ELSE 28)
    ELSE IF month \in {4, 6, 9, 11} THEN 30 ELSE 31

\* the datetime constructor accepts the fields (ValueError otherwise)
DatetimeOk(year, month, day, hour, minute, second) ==
    /\ year \in 1..9999
    /\ month \in 1..12
    /\ day \in 1..DaysInMonth(year, month)
    /\ hour \in 0..23
    /\ minute \in 0..59
    /\ second \in 0..59

RECURSIVE DaysBeforeMonth(_, _)
DaysBeforeMonth(year, month) ==
    IF month = 1 THEN 0
    ELSE DaysBeforeMonth(year, month - 1) + DaysInMonth(year, month - 1)

\* proleptic Gregorian ordinal of a date (0001-01-01 is day 1)
Ordinal(year, month, day) ==
    LET y == year - 1
    IN  y * 365 + (y \div 4) - (y \div 100) + (y \div 400)
        + DaysBeforeMonth(year, month) + day

\* variant: the name counts only when its second and third part are
\* exactly eight and six digits
ResolveSessionStartStrict(stem, mtime) ==
    LET parts == Split(stem, "_")
    IN  IF /\ Len(parts) >= 3
           /\ Len(parts[2]) = 8
           /\ Len(parts[3]) = 6
           /\ \A k \in 1..8 : IsDigit(parts[2][k])
           /\ \A k \in 1..6 : IsDigit(parts[3][k])
           /\ DatetimeOk(DecimalValue(Slice(parts[2], 0, 4)),
                         DecimalValue(Slice(parts[2], 4, 6)),
                         DecimalValue(Slice(parts[2], 6, 8)),
                         DecimalValue(Slice(parts[3], 0, 2)),
                         DecimalValue(Slice(parts[3], 2, 4)),
                         DecimalValue(Slice(parts[3], 4, 6)))
        THEN [day |-> Ordinal(DecimalValue(Slice(parts[2], 0, 4)),
                              DecimalValue(Slice(parts[2], 4, 6)),
                              DecimalValue(Slice(parts[2], 6, 8))),
              sec |-> DecimalValue(Slice(parts[3], 0, 2)) * 3600
                      + DecimalValue(Slice(parts[3], 2, 4)) * 60
                      + DecimalValue(Slice(parts[3], 4, 6)),
              us  |-> 0]
        ELSE mtime

\* session_start after the try/except of create_session_metadata: the
\* time read from the stem, or the file's modification time when the stem
\* has fewer than three parts or int() or datetime() raise
ResolveSessionStart(stem, mtime) ==
    LET parts == Split(stem, "_")
    IN  IF Len(parts) >= 3
        THEN LET date_str == parts[2]
                 time_str == parts[3]
                 year   == PyInt(Slice(date_str, 0, 4))
                 month  == PyInt(Slice(date_str, 4, 6))
                 day    == PyInt(Slice(date_str, 6, 8))
                 hour   == PyInt(Slice(time_str, 0, 2))
                 minute == PyInt(Slice(time_str, 2, 4))
                 second == PyInt(Slice(time_str, 4, 6))
             IN  IF /\ year.ok /\ month.ok /\ day.ok
                    /\ hour.ok /\ minute.ok /\ second.ok
                    /\ DatetimeOk(year.value, month.value, day.value,
                                  hour.value, minute.value, second.value)
                 THEN [day |-> Ordinal(year.value, month.value, day.value),
                       sec |-> hour.value * 3600 + minute.value * 60
                               + second.value,
                       us  |-> 0]
                 ELSE mtime
        ELSE mtime

\* str(uuid.uuid4()): the n-th identifier drawn; two draws never agree
UuidText == <<"uuid-1", "uuid-2", "uuid-3", "uuid-4">>
Uuid(n) == UuidText[n]

\* variant: an empty session_id is replaced as well ("if not session_id")
NeedsUuidIfFalsy(session_id) == session_id \in {None, <<"">>}

\* "if session_id is None"
NeedsUuid(session_id) == session_id = None

\* the exception create_session_metadata raises for the file ("" if none)
SessionRaises(file) ==
    IF ~file.exists THEN "FileNotFoundError"
    ELSE IF ~file.wav_ok THEN "wave.Error"
    ELSE ""

(***************************************************************************)
(* Chunk Timeline Builder.                                                 *)
(***************************************************************************)
\* variant: the offset taken as seconds, timedelta(seconds=offset_ms)
AbsoluteStartSeconds(session_start, offset_ms) ==
    AddMilliseconds(session_start, offset_ms * 1000)

\* absolute_start = session_start + timedelta(milliseconds=offset_ms)
AbsoluteStart(session_start, offset_ms) ==
    AddMilliseconds(session_start, offset_ms)

\* absolute_end = absolute_start + timedelta(milliseconds=duration_ms)
AbsoluteEnd(absolute_start, duration_ms) ==
    AddMilliseconds(absolute_start, duration_ms)

\* chunk_entry of create_chunks_timeline
ChunkEntry(chunk, session_start) ==
    LET absolute_start == AbsoluteStart(session_start, chunk.offset_ms)
        absolute_end   == AbsoluteEnd(absolute_start, chunk.duration_ms)
    IN  [chunk_id       |-> chunk.chunk_id,
         offset_ms      |-> chunk.offset_ms,
         duration_ms    |-> chunk.duration_ms,
         is_speech      |-> chunk.is_speech,
         audio_file     |-> chunk.audio_file,
         absolute_start |-> FormatMs(absolute_start),
         absolute_end   |-> FormatMs(absolute_end)]

\* variant: the entries sorted by offset_ms before they are built
TimelineChunksSorted(chunks, session_start) ==
    LET n == Len(chunks)
        perm == CHOOSE q \in [1..n -> 1..n] :
                    /\ \A a, b \in 1..n : a # b => q[a] # q[b]
                    /\ \A a \in 1..(n - 1) :
                          chunks[q[a]].offset_ms <= chunks[q[a + 1]].offset_ms
    IN  [k \in 1..n |-> ChunkEntry(chunks[perm[k]], session_start)]

\* timeline["chunks"] after the for-loop of create_chunks_timeline
TimelineChunks(chunks, session_start) ==
    [k \in 1..Len(chunks) |-> ChunkEntry(chunks[k], session_start)]

\* the timeline dict returned (and dumped) by create_chunks_timeline
ChunksTimeline(chunks, metadata) ==
    [session_id     |-> metadata.session_id,
     reference_time |-> metadata.session_start_time,
     chunks         |-> TimelineChunks(chunks,
                            FromTimestamp(metadata.session_start_unix))]

(***************************************************************************)
(* Segment Builder: the frame scan of VADProcessor._detect_webrtc.         *)
(***************************************************************************)
frame_duration_ms == 30

\* speech_start / speech_end of frame index i
FrameMs(i) == i * frame_duration_ms

\* variant: the open run ended at the start of the last frame
FlushEndLastIndex(frame_list) == (Len(frame_list) - 1) * frame_duration_ms

\* speech_end of the run still open after the last frame
FlushEnd(frame_list) == Len(frame_list) * frame_duration_ms

\* variant: the minimum-duration filter left out
RetainAlways(start_ms, end_ms, min_ms) == TRUE

\* "if speech_end - speech_start >= self.min_speech_duration_ms"
RetainSegment(start_ms, end_ms, min_ms) == end_ms - start_ms >= min_ms

\* segments after a candidate run [start_ms, end_ms) has ended
EmitCandidate(segs, start_ms, end_ms, min_ms) ==
    IF RetainSegment(start_ms, end_ms, min_ms)
    THEN Append(segs, [start |-> start_ms, end |-> end_ms])
    ELSE segs

\* "elif not is_speech and in_speech": the run is closed by this frame
ClosesRun(is_speech, was_in_speech) == ~is_speech /\ was_in_speech

(***************************************************************************)
(* Result Aligner (utils/timestamp_manager.py).                            *)
(*                                                                         *)
(* stt_results is a dict: the model keeps the sequence of its              *)
(* (chunk_id, result) items in iteration order, the keys distinct.  A      *)
(* result is a record that may lack "transcript", "confidence" and         *)
(* "words"; a word may lack "start_ms" and "end_ms".                       *)
(***************************************************************************)
\* dict.get(key, default)
Get(d, key, default) == IF key \in DOMAIN d THEN d[key] ELSE default

\* variant: the three digits after the '.' read as microseconds
ParseMsAsMicroseconds(t) ==
    [day |-> t.date, sec |-> (t.hh * 60 + t.mm) * 60 + t.ss, us |-> t.ms]

\* datetime.strptime(t, "%Y-%m-%d %H:%M:%S.%f"): "%f" reads the three
\* digits as a fraction of the second
ParseMs(t) ==
    [day |-> t.date, sec |-> (t.hh * 60 + t.mm) * 60 + t.ss,
     us  |-> t.ms * 1000]

\* "chunk_id not in chunk_map" negated
InChunkMap(chunks, chunk_id) ==
    \E k \in 1..Len(chunks) : chunks[k].chunk_id = chunk_id

\* variant: the map answers with the timeline's first segment
ChunkMapGetFirst(chunks, chunk_id) == chunks[1]

\* chunk_map[chunk_id]; the dict comprehension keeps the last chunk that
\* carries the id
ChunkMapGet(chunks, chunk_id) ==
    LET ks == {k \in 1..Len(chunks) : chunks[k].chunk_id = chunk_id}
    IN  chunks[CHOOSE k \in ks : \A j \in ks : j <= k]

\* variant: a token that ends after its segment is held at the segment's
\* end and flagged
WordEntryClamped(word_info, chunk_start, chunk_info) ==
    LET word_start_ms == Get(word_info, "start_ms", 0)
        word_end_ms   == Get(word_info, "end_ms", 0)
        clamped       == word_end_ms > chunk_info.duration_ms
    IN  [word            |-> word_info.word,
         absolute_start  |->
             FormatMs(AddMilliseconds(chunk_start, word_start_ms)),
         absolute_end    |->
             IF clamped THEN chunk_info.absolute_end
             ELSE FormatMs(AddMilliseconds(chunk_start, word_end_ms)),
         start_offset_ms |-> word_start_ms,
         end_offset_ms   |-> word_end_ms,
         clamped         |-> clamped]

\* the dict appended to event["words"] for one word_info of a result whose
\* segment is chunk_info and starts at chunk_start
WordEntry(word_info, chunk_start, chunk_info) ==
    LET word_start_ms == Get(word_info, "start_ms", 0)
        word_end_ms   == Get(word_info, "end_ms", 0)
    IN  [word            |-> word_info.word,
         absolute_start  |->
             FormatMs(AddMilliseconds(chunk_start, word_start_ms)),
         absolute_end    |->
             FormatMs(AddMilliseconds(chunk_start, word_end_ms)),
         start_offset_ms |-> word_start_ms,
         end_offset_ms   |-> word_end_ms]

\* the event built for one item of stt_results whose id is in chunk_map
AlignedEvent(chunk_id, result, chunk_info) ==
    LET chunk_start == ParseMs(chunk_info.absolute_start)
    IN  IF "words" \in DOMAIN result
        THEN [chunk_id       |-> chunk_id,
              absolute_start |-> chunk_info.absolute_start,
              absolute_end   |-> chunk_info.absolute_end,
              transcript     |-> Get(result, "transcript", ""),
              confidence     |-> Get(result, "confidence", None),
              words          |->
                  [k \in 1..Len(result.words) |->
                      WordEntry(result.words[k], chunk_start, chunk_info)]]
        ELSE [chunk_id       |-> chunk_id,
              absolute_start |-> chunk_info.absolute_start,
              absolute_end   |-> chunk_info.absolute_end,
              transcript     |-> Get(result, "transcript", ""),
              confidence     |-> Get(result, "confidence", None)]

\* aligned_results["events"] after the for-loop over stt_results.items():
\* an id missing from chunk_map is logged and skipped
RECURSIVE EventsLoop(_, _)
EventsLoop(items, chunks) ==
    IF items = <<>> THEN <<>>
    ELSE LET chunk_id == items[1][1]
             result   == items[1][2]
             rest     == EventsLoop(Tail(items), chunks)
         IN  IF ~InChunkMap(chunks, chunk_id) THEN rest
             ELSE <<AlignedEvent(chunk_id, result,
                                 ChunkMapGet(chunks, chunk_id))>> \o rest

\* variant: no event at all once an id is missing from chunk_map
EventsNoneIfUnknown(items, chunks) ==
    IF \E k \in 1..Len(items) : ~InChunkMap(chunks, items[k][1])
    THEN <<>>
    ELSE EventsLoop(items, chunks)

\* the events in the order of the map's items
EventsInMapOrder(items, chunks) == EventsLoop(items, chunks)

\* a < b for two "YYYY-MM-DD HH:MM:SS.mmm" strings: every field has a
\* fixed width, so the strings compare as their fields do from the left
StrLess(a, b) ==
    \/ a.date < b.date
    \/ a.date = b.date /\ MsOfStamp(a) < MsOfStamp(b)

\* list.sort is stable: e goes behind every event whose key is not larger
InsertByStart(sorted, e) ==
    LET pos == Cardinality({k \in 1..Len(sorted) :
                   ~StrLess(e.absolute_start, sorted[k].absolute_start)})
    IN  SubSeq(sorted, 1, pos) \o <<e>> \o SubSeq(sorted, pos + 1, Len(sorted))

RECURSIVE StableSort(_)
StableSort(events) ==
    IF events = <<>> THEN <<>>
    ELSE InsertByStart(StableSort(SubSeq(events, 1, Len(events) - 1)),
                       events[Len(events)])

\* word_info["word"] raises KeyError: some result whose id is in chunk_map
\* has a word without the key "word"
AlignRaises(items, chunks) ==
    \E k \in 1..Len(items) :
       /\ InChunkMap(chunks, items[k][1])
       /\ "words" \in DOMAIN items[k][2]
       /\ \E j \in 1..Len(items[k][2].words) :
             "word" \notin DOMAIN items[k][2].words[j]

\* variant: the events left in the order of the map's items
SortByStartOmitted(events) == events

\* aligned_results["events"].sort(key=lambda x: x["absolute_start"])
SortByStart(events) == StableSort(events)

\* the dict returned by align_stt_results_with_timeline; aligned_at is the
\* wall clock of the call, to the second
AlignSttResultsWithTimeline(results, chunks_timeline, model_name, now) ==
    [session_id |-> chunks_timeline.session_id,
     model      |-> model_name,
     aligned_at |-> now,
     events     |-> SortByStart(EventsInMapOrder(results,
                                                 chunks_timeline.chunks))]

\* s.split('.')[0] of a formatted timestamp: the text up to the seconds
SplitDot(t) == [date |-> t.date, hh |-> t.hh, mm |-> t.mm, ss |-> t.ss]

\* datetime.strptime(s, "%Y-%m-%d %H:%M:%S")
ParseSeconds(s) ==
    [day |-> s.date, sec |-> (s.hh * 60 + s.mm) * 60 + s.ss, us |-> 0]

\* a <= b for two datetimes
DtLeq(a, b) ==
    \/ a.day < b.day
    \/ a.day = b.day /\ a.sec < b.sec
    \/ a.day = b.day /\ a.sec = b.sec /\ a.us <= b.us

\* variant: the range closed on the left and open on the right
QueryMatchesHalfOpen(event_start, start_dt, end_dt) ==
    DtLeq(start_dt, event_start) /\ ~DtLeq(end_dt, event_start)

\* "if start_dt <= event_start <= end_dt"
QueryMatches(event_start, start_dt, end_dt) ==
    DtLeq(start_dt, event_start) /\ DtLeq(event_start, end_dt)

\* the list returned by query_by_time_range
QueryByTimeRange(aligned, start_time, end_time) ==
    LET start_dt == ParseSeconds(start_time)
        end_dt   == ParseSeconds(end_time)
        Hit(event) ==
            QueryMatches(ParseSeconds(SplitDot(event.absolute_start)),
                         start_dt, end_dt)
    IN  SelectSeq(aligned.events, Hit)

(***************************************************************************)
(* Strategy checks, VADPreprocessor detection and the returned dicts.      *)
(***************************************************************************)
\* variant: every sample rate and channel count is taken
WebrtcSupportsAny(sample_rate, num_channels) == TRUE

\* _detect_webrtc goes on to read the frames: "sample_rate not in (8000,
\* 16000, 32000, 48000)" and "num_channels != 1" are both false
WebrtcSupports(sample_rate, num_channels) ==
    sample_rate \in {8000, 16000, 32000, 48000} /\ num_channels = 1

\* variant: the stats carry a status
SplitStatsWithStatus(chunks) ==
    [total_chunks   |-> Len(chunks),
     speech_chunks  |->
         Cardinality({k \in 1..Len(chunks) : chunks[k].is_speech}),
     silence_chunks |->
         Cardinality({k \in 1..Len(chunks) : ~chunks[k].is_speech}),
     status         |-> IF Len(chunks) = 0 THEN "no_speech" ELSE "success"]

\* the stats dict of split_audio: its counts (the five figures derived
\* from durations, total_duration_s, speech_duration_s, silence_duration_s,
\* speech_ratio and storage_savings, are left out); the dict has no other
\* key
SplitStats(chunks) ==
    [total_chunks   |-> Len(chunks),
     speech_chunks  |->
         Cardinality({k \in 1..Len(chunks) : chunks[k].is_speech}),
     silence_chunks |->
         Cardinality({k \in 1..Len(chunks) : ~chunks[k].is_speech})]

\* variant: the requested method is kept whether or not it can be used
VpResolveMethodKeep(vad_method, available) == vad_method

\* self.vad_method after VADPreprocessor.__init__: a method whose library
\* is missing or whose model does not load is replaced by "energy"
VpResolveMethod(vad_method, available) ==
    IF vad_method = "webrtc"
    THEN (IF ~available.webrtc THEN "energy" ELSE vad_method)
    ELSE IF vad_method = "silero"
    THEN (IF ~available.silero THEN "energy"
          ELSE IF ~available.silero_loads THEN "energy"
          ELSE vad_method)
    ELSE vad_method

\* a run [start_frame, i) is appended when it is long enough
VpEmit(segs, start_frame, i, min_ms) ==
    LET start_ms == start_frame * frame_duration_ms
        end_ms   == i * frame_duration_ms
    IN  IF end_ms - start_ms >= min_ms
        THEN Append(segs, <<start_ms, end_ms>>)
        ELSE segs

\* the merge loop of detect_speech_segments_webrtc from frame i on;
\* start_frame is <<>> for None and <<n>> for n
RECURSIVE VpMerge(_, _, _, _, _)
VpMerge(speech_frames, i, start_frame, segs, min_ms) ==
    IF i = Len(speech_frames)
    THEN (IF start_frame # None
          THEN VpEmit(segs, start_frame[1], Len(speech_frames), min_ms)
          ELSE segs)
    ELSE IF speech_frames[i + 1] /\ start_frame = None
    THEN VpMerge(speech_frames, i + 1, <<i>>, segs, min_ms)
    ELSE IF ~speech_frames[i + 1] /\ start_frame # None
    THEN VpMerge(speech_frames, i + 1, None,
                 VpEmit(segs, start_frame[1], i, min_ms), min_ms)
    ELSE VpMerge(speech_frames, i + 1, start_frame, segs, min_ms)

\* detect_speech_segments_webrtc on the frame decisions of the file
DetectSpeechSegmentsWebrtc(speech_frames, min_ms) ==
    VpMerge(speech_frames, 0, None, <<>>, min_ms)

\* detect_speech_segments_energy: "if (end - start) >= min_speech_ms"
FilterShort(found, min_ms) ==
    LET Long(seg) == seg[2] - seg[1] >= min_ms
    IN  SelectSeq(found, Long)

\* the dict returned when no segment is found (filename and
\* original_duration left out)
NoSpeechResult == [status |-> "no_speech", chunks |-> 0]

\* the dict returned after the export (filename and the duration figures
\* left out)
SuccessResult(segs) ==
    [status      |-> "success",
     chunks      |-> Len(segs),
     chunks_info |-> [k \in 1..Len(segs) |->
                        [start_ms |-> segs[k][1], end_ms |-> segs[k][2]]]]

(***************************************************************************)
(* create_chunks_timeline called again and again on one output directory.  *)
(***************************************************************************)
\* first index whose chunk makes the for-loop raise KeyError (offset_ms,
\* duration_ms and chunk_id are read with chunk[...]); 0 when none does
FirstFailing(chunks) ==
    LET Fails(k) == ~({"offset_ms", "duration_ms", "chunk_id"}
                          \subseteq DOMAIN chunks[k])
    IN  IF \E k \in 1..Len(chunks) : Fails(k)
        THEN CHOOSE k \in 1..Len(chunks) :
                 Fails(k) /\ \A j \in 1..(k - 1) : ~Fails(j)
        ELSE 0

\* the exception create_chunks_timeline leaves with ("" when it returns)
TimelineRaises(chunks) ==
    IF FirstFailing(chunks) # 0 THEN "KeyError" ELSE ""

\* variant: every entry is written to the file as soon as it is built
TimelineFileIncremental(chunks, metadata, file) ==
    IF TimelineRaises(chunks) # ""
    THEN ChunksTimeline(SubSeq(chunks, 1, FirstFailing(chunks) - 1),
                        metadata)
    ELSE ChunksTimeline(chunks, metadata)

\* content of chunks_timeline.json after a call: the file is opened for
\* writing only after the for-loop is over
TimelineFileAfter(chunks, metadata, file) ==
    IF TimelineRaises(chunks) # ""
    THEN file
    ELSE ChunksTimeline(chunks, metadata)

\* variant: the call adds its entries to the ones the directory holds
TimelineReturnedAppending(chunks, metadata, file) ==
    IF file = None
    THEN ChunksTimeline(chunks, metadata)
    ELSE [ChunksTimeline(chunks, metadata) EXCEPT
             !.chunks = file.chunks \o @]

\* the timeline a call returns when it does not raise: built from its
\* arguments alone
TimelineReturned(chunks, metadata, file) ==
    ChunksTimeline(chunks, metadata)

(***************************************************************************)
(* Google STT configuration (utils/google_stt_config_manager.py).           *)
(*                                                                         *)
(* A name is a sequence of one-character strings; a dict is the sequence   *)
(* of its (key, value) items.  An Optional[str] is <<>> for None and <<s>> *)
(* for the string s.                                                       *)
(***************************************************************************)
\* the "models" entries of DEFAULT_CONFIG: the fields the region choice and
\* the fallback read
DefaultModels ==
  <<
    <<<<"c", "h", "i", "r", "p", "_", "3">>,
      [supported_regions |->
           <<<<"u", "s">>,
             <<"e", "u">>>>,
       preferred_region |-> <<"u", "s">>,
       fallback_regions |->
           <<<<"e", "u">>>>]>>,
    <<<<"c", "h", "i", "r", "p", "_", "t", "e", "l", "e", "p", "h", "o", "n", "y">>,
      [supported_regions |->
           <<<<"u", "s", "-", "c", "e", "n", "t", "r", "a", "l", "1">>,
             <<"a", "s", "i", "a", "-", "s", "o", "u", "t", "h", "e", "a", "s", "t", "1">>,
             <<"e", "u", "r", "o", "p", "e", "-", "w", "e", "s", "t", "1">>>>,
       preferred_region |-> <<"u", "s", "-", "c", "e", "n", "t", "r", "a", "l", "1">>,
       fallback_regions |->
           <<<<"a", "s", "i", "a", "-", "s", "o", "u", "t", "h", "e", "a", "s", "t", "1">>,
             <<"e", "u", "r", "o", "p", "e", "-", "w", "e", "s", "t", "1">>>>]>>,
    <<<<"c", "h", "i", "r", "p", "_", "2">>,
      [supported_regions |->
           <<<<"u", "s", "-", "c", "e", "n", "t", "r", "a", "l", "1">>,
             <<"a", "s", "i", "a", "-", "s", "o", "u", "t", "h", "e", "a", "s", "t", "1">>,
             <<"e", "u", "r", "o", "p", "e", "-", "w", "e", "s", "t", "4">>>>,
       preferred_region |-> <<"u", "s", "-", "c", "e", "n", "t", "r", "a", "l", "1">>,
       fallback_regions |->
           <<<<"a", "s", "i", "a", "-", "s", "o", "u", "t", "h", "e", "a", "s", "t", "1">>,
             <<"e", "u", "r", "o", "p", "e", "-", "w", "e", "s", "t", "4">>>>]>>,
    <<<<"c", "h", "i", "r", "p">>,
      [supported_regions |->
           <<<<"u", "s", "-", "c", "e", "n", "t", "r", "a", "l", "1">>,
             <<"e", "u", "r", "o", "p", "e", "-", "w", "e", "s", "t", "4">>,
             <<"a", "s", "i", "a", "-", "s", "o", "u", "t", "h", "e", "a", "s", "t", "1">>>>,
       preferred_region |-> <<"u", "s", "-", "c", "e", "n", "t", "r", "a", "l", "1">>,
       fallback_regions |->
           <<<<"e", "u", "r", "o", "p", "e", "-", "w", "e", "s", "t", "4">>,
             <<"a", "s", "i", "a", "-", "s", "o", "u", "t", "h", "e", "a", "s", "t", "1">>>>]>>,
    <<<<"l", "a", "t", "e", "s", "t", "_", "l", "o", "n", "g">>,
      [supported_regions |->
           <<<<"u", "s", "-", "c", "e", "n", "t", "r", "a", "l", "1">>,
             <<"e", "u", "r", "o", "p", "e", "-", "w", "e", "s", "t", "4">>,
             <<"a", "s", "i", "a", "-", "s", "o", "u", "t", "h", "e", "a", "s", "t", "1">>>>,
       preferred_region |-> <<"u", "s", "-", "c", "e", "n", "t", "r", "a", "l", "1">>,
       fallback_regions |->
           <<<<"e", "u", "r", "o", "p", "e", "-", "w", "e", "s", "t", "4">>,
             <<"a", "s", "i", "a", "-", "s", "o", "u", "t", "h", "e", "a", "s", "t", "1">>>>]>>,
    <<<<"l", "a", "t", "e", "s", "t", "_", "s", "h", "o", "r", "t">>,
      [supported_regions |->
           <<<<"u", "s", "-", "c", "e", "n", "t", "r", "a", "l", "1">>,
             <<"e", "u", "r", "o", "p", "e", "-", "w", "e", "s", "t", "4">>,
             <<"a", "s", "i", "a", "-", "s", "o", "u", "t", "h", "e", "a", "s", "t", "1">>>>,
       preferred_region |-> <<"u", "s", "-", "c", "e", "n", "t", "r", "a", "l", "1">>,
       fallback_regions |->
           <<<<"e", "u", "r", "o", "p", "e", "-", "w", "e", "s", "t", "4">>,
             <<"a", "s", "i", "a", "-", "s", "o", "u", "t", "h", "e", "a", "s", "t", "1">>>>]>>,
    <<<<"t", "e", "l", "e", "p", "h", "o", "n", "y">>,
      [supported_regions |->
           <<<<"u", "s", "-", "c", "e", "n", "t", "r", "a", "l", "1">>,
             <<"e", "u", "r", "o", "p", "e", "-", "w", "e", "s", "t", "4">>,
             <<"a", "s", "i", "a", "-", "s", "o", "u", "t", "h", "e", "a", "s", "t", "1">>>>,
       preferred_region |-> <<"u", "s", "-", "c", "e", "n", "t", "r", "a", "l", "1">>,
       fallback_regions |->
           <<<<"e", "u", "r", "o", "p", "e", "-", "w", "e", "s", "t", "4">>>>]>>
  >>

\* DEFAULT_CONFIG["region_aliases"]
DefaultRegionAliases ==
  <<
    <<<<"u", "n", "i", "t", "e", "d", "-", "s", "t", "a", "t", "e", "s">>,
      <<"u", "s">>>>,
    <<<<"a", "m", "e", "r", "i", "c", "a">>,
      <<"u", "s">>>>,
    <<<<"e", "u", "r", "o", "p", "e">>,
      <<"e", "u">>>>,
    <<<<"t", "a", "i", "w", "a", "n">>,
      <<"u", "s">>>>,
    <<<<"a", "s", "i", "a", "-", "e", "a", "s", "t", "1">>,
      <<"u", "s">>>>,
    <<<<"a", "s", "i", "a">>,
      <<"a", "s", "i", "a", "-", "s", "o", "u", "t", "h", "e", "a", "s", "t", "1">>>>,
    <<<<"g", "l", "o", "b", "a", "l">>,
      <<"u", "s">>>>
  >>

\* DEFAULT_CONFIG["model_aliases"]
DefaultModelAliases ==
  <<
    <<<<"c", "h", "i", "r", "p", "3">>,
      <<"c", "h", "i", "r", "p", "_", "3">>>>,
    <<<<"c", "h", "i", "r", "p", "-", "3">>,
      <<"c", "h", "i", "r", "p", "_", "3">>>>,
    <<<<"v", "3">>,
      <<"c", "h", "i", "r", "p", "_", "3">>>>,
    <<<<"l", "a", "t", "e", "s", "t">>,
      <<"c", "h", "i", "r", "p", "_", "3">>>>,
    <<<<"r", "a", "d", "i", "o">>,
      <<"c", "h", "i", "r", "p", "_", "t", "e", "l", "e", "p", "h", "o", "n", "y">>>>,
    <<<<"t", "e", "l", "e", "p", "h", "o", "n", "y", "_", "c", "h", "i", "r", "p">>,
      <<"c", "h", "i", "r", "p", "_", "t", "e", "l", "e", "p", "h", "o", "n", "y">>>>,
    <<<<"p", "h", "o", "n", "e">>,
      <<"c", "h", "i", "r", "p", "_", "t", "e", "l", "e", "p", "h", "o", "n", "y">>>>,
    <<<<"8", "k", "h", "z">>,
      <<"c", "h", "i", "r", "p", "_", "t", "e", "l", "e", "p", "h", "o", "n", "y">>>>,
    <<<<"c", "h", "i", "r", "p", "2">>,
      <<"c", "h", "i", "r", "p", "_", "2">>>>,
    <<<<"c", "h", "i", "r", "p", "-", "2">>,
      <<"c", "h", "i", "r", "p", "_", "2">>>>,
    <<<<"v", "2">>,
      <<"c", "h", "i", "r", "p", "_", "2">>>>,
    <<<<"u", "n", "i", "v", "e", "r", "s", "a", "l">>,
      <<"c", "h", "i", "r", "p">>>>,
    <<<<"d", "e", "f", "a", "u", "l", "t">>,
      <<"c", "h", "i", "r", "p", "_", "3">>>>,
    <<<<"l", "o", "n", "g">>,
      <<"l", "a", "t", "e", "s", "t", "_", "l", "o", "n", "g">>>>,
    <<<<"s", "h", "o", "r", "t">>,
      <<"l", "a", "t", "e", "s", "t", "_", "s", "h", "o", "r", "t">>>>
  >>

\* the configuration a GoogleSTTConfigManager holds when no configuration
\* file overrides it
DEFAULT_CONFIG ==
    [models         |-> DefaultModels,
     region_aliases |-> DefaultRegionAliases,
     model_aliases  |-> DefaultModelAliases]

\* key in d
DictHas(d, key) == \E i \in 1..Len(d) : d[i][1] = key

\* d[key]
DictGet(d, key) == d[CHOOSE i \in 1..Len(d) : d[i][1] = key][2]

\* x in a list
InList(list, x) == \E i \in 1..Len(list) : list[i] = x

\* str.lower()
Lower(chars) ==
    LET upper == <<"A", "B", "C", "D", "E", "F", "G", "H", "I", "J", "K", "L",
                   "M", "N", "O", "P", "Q", "R", "S", "T", "U", "V", "W", "X",
                   "Y", "Z">>
        lower == <<"a", "b", "c", "d", "e", "f", "g", "h", "i", "j", "k", "l",
                   "m", "n", "o", "p", "q", "r", "s", "t", "u", "v", "w", "x",
                   "y", "z">>
    IN  [k \in 1..Len(chars) |->
            IF \E i \in 1..26 : upper[i] = chars[k]
            THEN lower[CHOOSE i \in 1..26 : upper[i] = chars[k]]
            ELSE chars[k]]

\* str.replace('-', '_')
ReplaceDash(chars) ==
    [k \in 1..Len(chars) |-> IF chars[k] = "-" THEN "_" ELSE chars[k]]

\* "not s" for an Optional[str]: None or the empty string
Falsy(s) == s = None \/ s[1] = <<>>

chirp_3 == <<"c", "h", "i", "r", "p", "_", "3">>

\* _normalize_model_name
NormalizeModelName(config, model) ==
    IF Falsy(model) THEN chirp_3
    ELSE LET name == ReplaceDash(Strip(Lower(model[1])))
         IN  IF DictHas(config.model_aliases, name)
             THEN DictGet(config.model_aliases, name)
             ELSE IF DictHas(config.models, name) THEN name
             ELSE chirp_3

\* _normalize_region_name
NormalizeRegionName(config, region) ==
    IF Falsy(region) THEN None
    ELSE LET name == Strip(Lower(region[1]))
         IN  IF DictHas(config.region_aliases, name)
             THEN <<DictGet(config.region_aliases, name)>>
             ELSE <<name>>

\* variant: a preferred region is taken as it is given
SelectOptimalRegionAsGiven(model_config, preferred_region) ==
    IF ~Falsy(preferred_region) THEN preferred_region[1]
    ELSE model_config.preferred_region

\* _select_optimal_region (every model of the configuration has a
\* preferred region among its supported regions, so the two last resorts
\* of the function are its fallback list and its first supported region)
SelectOptimalRegion(model_config, preferred_region) ==
    LET supported_regions == model_config.supported_regions
        preferred == model_config.preferred_region
        usable == {i \in 1..Len(model_config.fallback_regions) :
                      InList(supported_regions,
                             model_config.fallback_regions[i])}
    IN  IF ~Falsy(preferred_region)
           /\ InList(supported_regions, preferred_region[1])
        THEN preferred_region[1]
        ELSE IF preferred # <<>> /\ InList(supported_regions, preferred)
        THEN preferred
        ELSE IF usable # {}
        THEN model_config.fallback_regions[
                 CHOOSE i \in usable : \A j \in usable : i <= j]
        ELSE supported_regions[1]

\* _get_api_endpoint: "{region}-speech.googleapis.com".format(region=region)
GetApiEndpoint(region) == region \o <<"-speech.googleapis.com">>

\* get_optimal_config: (model_id, region, api_endpoint)
GetOptimalConfig(config, model, preferred_region) ==
    LET normalized_model == NormalizeModelName(config, model)
        model_config == DictGet(config.models, normalized_model)
        optimal_region ==
            SelectOptimalRegion(model_config,
                NormalizeRegionName(config, preferred_region))
    IN  <<normalized_model, optimal_region, GetApiEndpoint(optimal_region)>>


(***************************************************************************)
(* Google STT model (scripts/models/model_google_stt.py).                  *)
(***************************************************************************)
\* GoogleSTTModel.__init__: model, location, endpoint and whether a
\* configuration manager is kept
GoogleSTTModelInit(auto_config, model, location) ==
    LET model_or_default == IF Falsy(model) THEN chirp_3 ELSE model[1]
        location_or_default == IF Falsy(location) THEN <<"u", "s">> ELSE location[1]
    IN  IF auto_config
        THEN LET config_result ==
                     GetOptimalConfig(DEFAULT_CONFIG, <<model_or_default>>,
                                      location)
             IN  [model          |-> config_result[1],
                  location       |-> config_result[2],
                  api_endpoint   |-> config_result[3],
                  config_manager |-> TRUE]
        ELSE [model          |-> model_or_default,
              location       |-> location_or_default,
              api_endpoint   |-> location_or_default
                                    \o <<"-speech.googleapis.com">>,
              config_manager |-> FALSE]

\* config['models'].get(self.model, {}).get('fallback_regions', [])
FallbackRegions(model) ==
    IF DictHas(DEFAULT_CONFIG.models, model)
    THEN DictGet(DEFAULT_CONFIG.models, model).fallback_regions
    ELSE <<>>

\* the text the service puts in the error of a recognizer that is not in
\* the region asked; transcribe_file looks for it in str(e)
WrongLocation == "does not exist in the location"

\* the dict transcribe_file returns on failure; in every dict of the call
\* "error" is None when the key is absent
SttError(error_msg) == [transcript |-> "", error |-> <<error_msg>>]

(***************************************************************************)
(* Batch inference (scripts/batch_inference.py) and the text-file fallback *)
(* of the result merger (scripts/result_marger.py).                        *)
(*                                                                         *)
(* A file name is (prefix, id, suffix) as the splitter writes it; a        *)
(* transcript is a sequence of one-character strings.                      *)
(***************************************************************************)
\* Path.stem: the name without its last suffix
Stem(file) == <<file[1], file[2]>>

\* d[key] = value: a key already in the dict keeps its place
DictSet(d, key, value) ==
    IF DictHas(d, key)
    THEN [i \in 1..Len(d) |-> IF d[i][1] = key THEN <<key, value>> ELSE d[i]]
    ELSE Append(d, <<key, value>>)

\* fix_radio_jargon on a text that holds none of the terms it replaces:
\* "" for an empty text, otherwise the text without outer blanks
FixRadioJargon(text) == IF text = <<>> THEN <<>> ELSE Strip(text)

\* self.transcribe_file(audio_file) per model type: the dict returned, or
\* raised = TRUE.  A failing GoogleSTTModel returns a dict with "error"
\* (model_google_stt.py 443-448); Whisper and Gemini raise.
TranscribeFile(model_type, outcome) ==
    LET heard == <<" ", "R", "1", "3">>
    IN
    CASE outcome = "fails" /\ model_type = "google_stt" ->
            [raised |-> FALSE,
             result |-> [transcript |-> <<>>, transcript_raw |-> <<>>,
                         confidence |-> 0, error |-> "recognize failed"]]
      [] outcome = "fails" /\ model_type # "google_stt" ->
            [raised |-> TRUE, error |-> "recognize failed"]
      [] outcome = "empty" /\ model_type = "google_stt" ->
            [raised |-> FALSE,
             result |-> [transcript |-> <<>>, transcript_raw |-> <<>>,
                         confidence |-> 0]]
      [] outcome = "empty" /\ model_type # "google_stt" ->
            [raised |-> FALSE,
             result |-> [transcript |-> <<>>, transcript_raw |-> <<>>]]
      [] outcome = "text" /\ model_type = "google_stt" ->
            [raised |-> FALSE,
             result |-> [transcript |-> heard,
                         transcript_raw |-> heard,
                         confidence |-> 90,
                         results |-> "response.results"]]
      [] OTHER ->
            [raised |-> FALSE,
             result |-> [transcript |-> heard,
                         transcript_raw |-> heard]]

\* (success_count, error_count) after one file: only an exception counts
\* as an error
CountsAfter(call, success, errors) ==
    IF call.raised THEN <<success, errors + 1>> ELSE <<success + 1, errors>>

\* json.dump can serialise the results: the "results" of a Google response
\* is an object of the client library
JsonSerialisable(results) ==
    \A i \in 1..Len(results) : "results" \notin DOMAIN results[i][2]

\* the metadata run writes
BatchMetadata(model_type, results, success, errors) ==
    [model_type    |-> model_type,
     total_files   |-> Len(results),
     success_count |-> success,
     error_count   |-> errors]

\* create_timestamped_results without a results JSON: one entry per
\* chunk_*.txt, keyed by the file's stem
TextFileResults(txt) ==
    [i \in 1..Len(txt) |->
        <<txt[i][1], [transcript     |-> Strip(txt[i][2]),
                      transcript_raw |-> Strip(txt[i][2])]>>]

(***************************************************************************)
(* VADPreprocessor.process_directory (scripts/vad_preprocess.py).          *)
(*                                                                         *)
(* Durations are in milliseconds; a ratio is the pair (speech, original).  *)
(***************************************************************************)

\* sum(r.get(key, 0) for r in results)
RECURSIVE SumOf(_, _)
SumOf(results, key) ==
    IF results = <<>> THEN 0
    ELSE (IF key \in DOMAIN Head(results) THEN Head(results)[key] ELSE 0)
         + SumOf(Tail(results), key)

\* the report (timestamp, directories and vad_config left out)
DirReport(results) ==
    LET total_original_duration == SumOf(results, "original_duration")
        total_speech_duration == SumOf(results, "speech_duration")
    IN  [statistics |->
            [total_files       |-> Len(results),
             success_files     |-> Cardinality({i \in 1..Len(results) :
                                        results[i].status = "success"}),
             total_chunks      |-> SumOf(results, "chunks"),
             original_duration |-> total_original_duration,
             speech_duration   |-> total_speech_duration,
             speech_ratio      |-> IF total_original_duration > 0
                                   THEN <<total_speech_duration,
                                          total_original_duration>>
                                   ELSE <<0, 1>>],
         files |-> results]

\* the closing summary divides total_speech_duration by
\* total_original_duration without the guard the report has
SummaryRaises(results) == SumOf(results, "original_duration") = 0

(***************************************************************************)
(* Inputs.                                                                 *)
(***************************************************************************)
\* min_speech_duration_ms given to AudioSplitter (ms)
MinSpeechChoices == {30, 90}

\* min_silence_duration_ms given to AudioSplitter (ms)
MinSilenceChoices == {30, 100}

\* max_chunk_duration_ms = int(max_chunk_duration_s * 1000)
MaxChunkChoices == {11, 45, 30000}

\* session_start found by create_session_metadata: a capture time from the
\* file name (whole seconds; 2025-12-01 14:00:00) or the file's mtime
\* (microseconds; here half a millisecond before the next midnight)
SessionStartChoices ==
    {[day |-> 739586, sec |-> 50400, us |-> 0],
     [day |-> 739586, sec |-> 86399, us |-> 999500]}

\* (start_ms, duration_ms, max_ms) handed to the splitter alone
SplitInputs ==
    {<<s, d, m>> : s \in {0, 7}, d \in 1..MaxSplitDur, m \in 1..MaxSplitMax}
    \cup {<<12000, 45000, 30000>>}

\* chunk lists handed to the timeline builder alone: any order, overlapping
\* or not
TimelineOffsets == {0, 30, 60, 300000}
TimelineDurations == {30, 60, 5000}
ChunkInfoLists ==
    UNION {[1..n -> TimelineOffsets \X TimelineDurations]
             : n \in 0..MaxTimelineLen}
ChunkInfoOf(list) ==
    [k \in 1..Len(list) |->
        [chunk_id    |-> ChunkId(k),
         offset_ms   |-> list[k][1],
         duration_ms |-> list[k][2],
         is_speech   |-> TRUE,
         audio_file  |-> <<"chunk_", ChunkId(k), ".wav">>]]

\* ids used as keys of stt_results: ChunkId(MaxTimelineLen + 1) is in no
\* timeline of the model
ResultKeys == {ChunkId(k) : k \in 1..(MaxTimelineLen + 1)}

\* recognition results: without word times, with word times (the second
\* word ends 3500 ms into the segment), with a word that carries no
\* times, with a word that carries no text
ResultChoices ==
    {[transcript |-> "t1"],
     [transcript |-> "t2", confidence |-> 95,
      words |-> <<[word |-> "w1", start_ms |-> 0, end_ms |-> 150],
                  [word |-> "w2", start_ms |-> 150, end_ms |-> 3500]>>],
     [confidence |-> 80, words |-> <<[word |-> "w3"]>>],
     [transcript |-> "t4",
      words |-> <<[start_ms |-> 0, end_ms |-> 30]>>]}

\* stt_results: up to MaxResults items with distinct keys, in any order
SttResultChoices ==
    UNION {{items \in [1..n -> ResultKeys \X ResultChoices] :
               \A a, b \in 1..n : a # b => items[a][1] # items[b][1]}
             : n \in 0..MaxResults}

\* segments of the timelines handed to the aligner alone
AlignOffsets == {0, 30, 3000}
AlignDurations == {30, 3000}
AlignChunkLists ==
    UNION {[1..n -> AlignOffsets \X AlignDurations] : n \in 0..MaxTimelineLen}

\* wall clock when align_stt_results_with_timeline runs
NowChoices ==
    {[date |-> 739586, hh |-> 15, mm |-> 0, ss |-> 0],
     [date |-> 739587, hh |-> 0, mm |-> 0, ss |-> 1]}

\* (start_time, end_time) given to query_by_time_range
QueryChoices ==
    {<<[date |-> 739586, hh |-> 14, mm |-> 0, ss |-> 0],
       [date |-> 739586, hh |-> 14, mm |-> 0, ss |-> 3]>>,
     <<[date |-> 739586, hh |-> 13, mm |-> 59, ss |-> 59],
       [date |-> 739586, hh |-> 14, mm |-> 0, ss |-> 0]>>,
     <<[date |-> 739586, hh |-> 14, mm |-> 0, ss |-> 1],
       [date |-> 739586, hh |-> 14, mm |-> 0, ss |-> 2]>>,
     <<[date |-> 739586, hh |-> 23, mm |-> 59, ss |-> 59],
       [date |-> 739587, hh |-> 0, mm |-> 0, ss |-> 0]>>,
     <<[date |-> 739587, hh |-> 0, mm |-> 0, ss |-> 0],
       [date |-> 739587, hh |-> 0, mm |-> 0, ss |-> 2]>>}

\* stems of the files given to create_session_metadata alone
StemChoices ==
    {\* radio_20251201_140000
     <<"r","a","d","i","o","_","2","0","2","5","1","2","0","1","_","1","4",
       "0","0","0","0">>,
     \* radio_20251201
     <<"r","a","d","i","o","_","2","0","2","5","1","2","0","1">>,
     \* recording
     <<"r","e","c","o","r","d","i","n","g">>,
     \* radio_2025120x_140000
     <<"r","a","d","i","o","_","2","0","2","5","1","2","0","x","_","1","4",
       "0","0","0","0">>,
     \* radio_20251301_140000
     <<"r","a","d","i","o","_","2","0","2","5","1","3","0","1","_","1","4",
       "0","0","0","0">>,
     \* radio_20251201_250000
     <<"r","a","d","i","o","_","2","0","2","5","1","2","0","1","_","2","5",
       "0","0","0","0">>,
     \* radio_20250230_140000
     <<"r","a","d","i","o","_","2","0","2","5","0","2","3","0","_","1","4",
       "0","0","0","0">>,
     \* radio_20240229_235959
     <<"r","a","d","i","o","_","2","0","2","4","0","2","2","9","_","2","3",
       "5","9","5","9">>,
     \* radio_20251201_1400
     <<"r","a","d","i","o","_","2","0","2","5","1","2","0","1","_","1","4",
       "0","0">>,
     \* radio_20251201_140000xyz
     <<"r","a","d","i","o","_","2","0","2","5","1","2","0","1","_","1","4",
       "0","0","0","0","x","y","z">>,
     \* radio_20251201_140000_part2
     <<"r","a","d","i","o","_","2","0","2","5","1","2","0","1","_","1","4",
       "0","0","0","0","_","p","a","r","t","2">>,
     \* my_radio_20251201_140000
     <<"m","y","_","r","a","d","i","o","_","2","0","2","5","1","2","0","1",
       "_","1","4","0","0","0","0">>,
     \* radio_20251201_+90000
     <<"r","a","d","i","o","_","2","0","2","5","1","2","0","1","_","+","9",
       "0","0","0","0">>,
     \* radio_20251201_140060
     <<"r","a","d","i","o","_","2","0","2","5","1","2","0","1","_","1","4",
       "0","0","6","0">>,
     \* radio_19000229_000000
     <<"r","a","d","i","o","_","1","9","0","0","0","2","2","9","_","0","0",
       "0","0","0","0">>}

\* datetime.fromtimestamp(st_mtime) of those files
MtimeChoices ==
    {[day |-> 739586, sec |-> 86399, us |-> 999500],
     [day |-> 739001, sec |-> 3600, us |-> 250000]}

\* the files: a missing file, a file wave.open rejects, readable files
AudioFileChoices ==
    [stem : StemChoices, mtime : MtimeChoices, exists : {TRUE},
     wav_ok : {TRUE}, sample_rate : {16000}, num_channels : {1}]
    \cup [stem : {<<"r", "e", "c", "o", "r", "d", "i", "n", "g">>},
          mtime : MtimeChoices, exists : BOOLEAN, wav_ok : BOOLEAN,
          sample_rate : {16000}, num_channels : {1}]

\* session_id arguments: None, a new name, the empty string, an
\* identifier drawn by an earlier call
SessionIdChoices == {None, <<"resume-7">>, <<"">>, <<Uuid(1)>>}

\* recordings given to split_audio: a name that carries the capture time
\* and one that does not; 16 kHz mono, 44.1 kHz mono, 16 kHz stereo
PipelineAudioChoices ==
    [stem : {<<"r","a","d","i","o","_","2","0","2","5","1","2","0","1","_",
               "1","4","0","0","0","0">>,
             <<"r", "e", "c", "o", "r", "d", "i", "n", "g">>},
     mtime : {[day |-> 739586, sec |-> 86399, us |-> 999500]},
     exists : {TRUE}, wav_ok : {TRUE},
     sample_rate : {16000}, num_channels : {1}]
    \cup
    [stem : {<<"r", "e", "c", "o", "r", "d", "i", "n", "g">>},
     mtime : {[day |-> 739586, sec |-> 86399, us |-> 999500]},
     exists : {TRUE}, wav_ok : {TRUE},
     sample_rate : {16000, 44100}, num_channels : {1, 2}]

\* vad_method arguments of VADPreprocessor
VpMethodChoices == {"energy", "webrtc", "silero"}

\* which libraries are installed, and whether the Silero model loads
VpAvailableChoices ==
    [webrtc : BOOLEAN, silero : BOOLEAN, silero_loads : BOOLEAN]

\* min_speech_duration * 1000 for min_speech_duration 0.03 and 0.3
VpMinSpeechChoices == {30, 300}

\* int(max_chunk_length * 1000) for max_chunk_length 0.045 and 50.0
VpMaxChunkChoices == {45, 50000}

\* frame decisions of one file
FrameStreams == UNION {[1..n -> BOOLEAN] : n \in 0..MaxFrames}

\* (start_ms, end_ms) lists found by pydub's detect_nonsilent or by the
\* Silero model
LibrarySegmentChoices ==
    {<<>>, <<<<0, 90>>>>, <<<<30, 60>>, <<120, 480>>>>}

\* chunk dicts handed to repeated create_chunks_timeline calls: complete
\* ones and ones that lack offset_ms or duration_ms
RebuildChunk(kind, k) ==
    LET full == [chunk_id    |-> ChunkId(k),
                 offset_ms   |-> IF kind = "late" THEN 300000 ELSE 30 * (k - 1),
                 duration_ms |-> IF kind = "late" THEN 5000 ELSE 30,
                 is_speech   |-> TRUE,
                 audio_file  |-> <<"chunk_", ChunkId(k), ".wav">>]
    IN  CASE kind = "no_offset" ->
                [f \in DOMAIN full \ {"offset_ms"} |-> full[f]]
          [] kind = "no_duration" ->
                [f \in DOMAIN full \ {"duration_ms"} |-> full[f]]
          [] OTHER -> full
RebuildKinds == {"early", "late", "no_offset", "no_duration"}
RebuildChunkLists ==
    {[k \in 1..Len(kinds) |-> RebuildChunk(kinds[k], k)] :
        kinds \in UNION {[1..n -> RebuildKinds] : n \in 0..MaxTimelineLen}}

\* model arguments of get_optimal_config: None, empty and blank names,
\* model ids, aliases in any case, with dashes or blanks, an unknown name
ModelArgChoices ==
    {<<>>,
     <<<<>>>>,
     <<<<" ", " ">>>>,
     <<<<"c", "h", "i", "r", "p", "_", "3">>>>,
     <<<<"C", "h", "i", "r", "p", "-", "3">>>>,
     <<<<" ", "R", "A", "D", "I", "O", " ">>>>,
     <<<<"c", "h", "i", "r", "p", "3">>>>,
     <<<<"u", "n", "k", "n", "o", "w", "n", "_", "m", "o", "d", "e", "l">>>>,
     <<<<"v", "2">>>>,
     <<<<"l", "a", "t", "e", "s", "t", "-", "l", "o", "n", "g">>>>,
     <<<<"t", "e", "l", "e", "p", "h", "o", "n", "y">>>>,
     <<<<"c", "h", "i", "r", "p", "-", "2">>>>,
     <<<<"8", "K", "H", "Z">>>>}

\* preferred_region arguments: None, regions, aliases, an unknown region
RegionArgChoices ==
    {<<>>,
     <<<<>>>>,
     <<<<"u", "s">>>>,
     <<<<"E", "U">>>>,
     <<<<" ", "g", "l", "o", "b", "a", "l", " ">>>>,
     <<<<"a", "s", "i", "a">>>>,
     <<<<"e", "u", "r", "o", "p", "e", "-", "w", "e", "s", "t", "4">>>>,
     <<<<"m", "a", "r", "s">>>>,
     <<<<"t", "a", "i", "w", "a", "n">>>>,
     <<<<"e", "u", "r", "o", "p", "e", "-", "w", "e", "s", "t", "1">>>>}

\* what a region can answer: a transcript, no result, the error of a
\* recognizer that is not in the region, another error; or no client can be
\* built for the region
RecognizeOutcomes == {"text", "empty", "wrong_location", "error", "no_client"}

\* input_dir: the splitter's chunk files, and possibly an mp3 copy of the
\* first one; sorted() puts "chunk_001.mp3" before "chunk_001.wav"
DirectoryListing(n, with_copy) ==
    (IF with_copy /\ n > 0 THEN <<<<"chunk_", ChunkId(1), ".mp3">>>> ELSE <<>>)
    \o [k \in 1..n |-> <<"chunk_", ChunkId(k), ".wav">>]

\* what process_audio_file returns for a file: the except branch's dict,
\* no speech in an empty and in a 3 s file, one chunk and two chunks out of
\* a 3 s file
FileResultChoices(filename) ==
    {[filename |-> filename, status |-> "error", error |-> "load failed"],
     [filename |-> filename, status |-> "no_speech",
      original_duration |-> 0, chunks |-> 0],
     [filename |-> filename, status |-> "no_speech",
      original_duration |-> 3000, chunks |-> 0],
     [filename |-> filename, status |-> "success",
      original_duration |-> 3000, speech_duration |-> 1500, chunks |-> 1],
     [filename |-> filename, status |-> "success",
      original_duration |-> 3000, speech_duration |-> 2400, chunks |-> 2]}


(***************************************************************************)
(* Initial states.                                                         *)
(***************************************************************************)
\* create_chunks_timeline has not been called on a directory of its own
RebuildIdle ==
    /\ tl_calls = 0
    /\ tl_raised = ""
    /\ tl_prev = None

\* get_optimal_config has not been called
ConfigIdle ==
    /\ cfg_model_arg = None
    /\ cfg_region_arg = None
    /\ cfg_result = None

\* no GoogleSTTModel has been constructed
SttIdle ==
    /\ gstt_pc = "none"
    /\ gstt_model = <<>>
    /\ gstt_location = <<>>
    /\ gstt_api_endpoint = <<>>
    /\ gstt_config_manager = FALSE
    /\ gstt_env = <<>>
    /\ gstt_stack = <<>>
    /\ gstt_attempts = <<>>
    /\ gstt_result = None
    /\ gstt_before = None
    /\ gstt_calls = 0

\* no BatchInference has been constructed
BatchIdle ==
    /\ batch_pc = "none"
    /\ batch_model_type = ""
    /\ batch_files = <<>>
    /\ batch_outcomes = <<>>
    /\ batch_results = <<>>
    /\ batch_txt = <<>>
    /\ success_count = 0
    /\ error_count = 0
    /\ batch_json = None

\* process_directory has not been called
DirIdle ==
    /\ dir_pc = "none"
    /\ dir_files = <<>>
    /\ dir_results = <<>>
    /\ dir_report_file = None
    /\ dir_return = None

\* the operations outside the run at hand have not been called
ExtraIdle == RebuildIdle /\ ConfigIdle /\ SttIdle /\ BatchIdle /\ DirIdle

\* no VADPreprocessor has been constructed
VpFresh ==
    /\ vp_requested = "energy"
    /\ vp_available = [webrtc |-> TRUE, silero |-> TRUE, silero_loads |-> TRUE]
    /\ vp_method = "energy"
    /\ vp_min_speech_ms = 300
    /\ vp_frames = <<>>
    /\ vp_result = None

\* create_session_metadata has not been called on a file of its own
SessionIdle ==
    /\ audio_file = None
    /\ session_id_arg = None
    /\ session_error = ""
    /\ uuid_issued = 0

\* the Result Aligner has not been called
AlignIdle ==
    /\ align_pc = "idle"
    /\ stt_results = <<>>
    /\ aligned_results = None
    /\ query = None
    /\ query_results = <<>>

\* AudioSplitter.__init__ has run; split_audio is about to start on a
\* readable recording
InitSplitAudio ==
    /\ pc = "session"
    /\ min_speech_duration_ms \in MinSpeechChoices
    /\ min_silence_duration_ms \in MinSilenceChoices
    /\ max_chunk_duration_ms \in MaxChunkChoices
    /\ session_metadata = None
    /\ frames = <<>>
    /\ scan_i = 0
    /\ in_speech = FALSE
    /\ speech_start = 0
    /\ segments = <<>>
    /\ split_segments = <<>>
    /\ chunks_info = <<>>
    /\ timeline = None
    /\ timeline_file = None
    /\ vp_pc = "idle"
    /\ vp_max_chunk_length_ms = 50000
    /\ vp_segments = <<>>
    /\ AlignIdle
    /\ audio_file \in PipelineAudioChoices
    /\ session_id_arg = None
    /\ session_error = ""
    /\ uuid_issued = 0
    /\ VpFresh
    /\ stats = None
    /\ ExtraIdle

\* a VADPreprocessor is about to be constructed and given one file
InitProcessAudioFile ==
    /\ pc = "idle"
    /\ min_speech_duration_ms = 30
    /\ min_silence_duration_ms = 100
    /\ max_chunk_duration_ms = 30000
    /\ session_metadata = None
    /\ frames = <<>>
    /\ scan_i = 0
    /\ in_speech = FALSE
    /\ speech_start = 0
    /\ segments = <<>>
    /\ split_segments = <<>>
    /\ chunks_info = <<>>
    /\ timeline = None
    /\ timeline_file = None
    /\ vp_pc = "new"
    /\ vp_max_chunk_length_ms \in VpMaxChunkChoices
    /\ vp_segments = <<>>
    /\ AlignIdle
    /\ SessionIdle
    /\ VpFresh
    /\ stats = None
    /\ ExtraIdle

\* one recording is handed either to AudioSplitter.split_audio or to
\* VADPreprocessor.process_audio_file
Init == InitSplitAudio \/ InitProcessAudioFile

\* both splitters are about to be called on one interval
InitSplit ==
    \E inp \in SplitInputs :
        /\ pc = "split"
        /\ min_speech_duration_ms = 30
        /\ min_silence_duration_ms = 100
        /\ max_chunk_duration_ms = inp[3]
        /\ session_metadata = None
        /\ frames = <<>>
        /\ scan_i = 0
        /\ in_speech = FALSE
        /\ speech_start = 0
        /\ segments = <<[start |-> inp[1], end |-> inp[1] + inp[2]]>>
        /\ split_segments = <<>>
        /\ chunks_info = <<>>
        /\ timeline = None
        /\ timeline_file = None
        /\ vp_pc = "split"
        /\ vp_max_chunk_length_ms = inp[3]
        /\ vp_segments = <<<<inp[1], inp[1] + inp[2]>>>>
        /\ AlignIdle
        /\ SessionIdle
        /\ VpFresh
        /\ stats = None
        /\ ExtraIdle

\* create_chunks_timeline is about to be called on a given chunk list
InitTimeline ==
    \E list \in ChunkInfoLists, start \in SessionStartChoices :
        /\ pc = "timeline"
        /\ min_speech_duration_ms = 30
        /\ min_silence_duration_ms = 100
        /\ max_chunk_duration_ms = 30000
        /\ session_metadata = SessionMetadata(Uuid(1), start)
        /\ frames = <<>>
        /\ scan_i = 0
        /\ in_speech = FALSE
        /\ speech_start = 0
        /\ segments = <<>>
        /\ split_segments = <<>>
        /\ chunks_info = ChunkInfoOf(list)
        /\ timeline = None
        /\ timeline_file = None
        /\ vp_pc = "idle"
        /\ vp_max_chunk_length_ms = 50000
        /\ vp_segments = <<>>
        /\ AlignIdle
        /\ SessionIdle
        /\ VpFresh
        /\ stats = None
        /\ ExtraIdle

\* a timeline has been built; align_stt_results_with_timeline is about to
\* be called on it
InitAlign ==
    \E list \in AlignChunkLists, start \in SessionStartChoices,
       results \in SttResultChoices :
        /\ pc = "done"
        /\ min_speech_duration_ms = 30
        /\ min_silence_duration_ms = 100
        /\ max_chunk_duration_ms = 30000
        /\ session_metadata = SessionMetadata(Uuid(1), start)
        /\ frames = <<>>
        /\ scan_i = 0
        /\ in_speech = FALSE
        /\ speech_start = 0
        /\ segments = <<>>
        /\ split_segments = <<>>
        /\ chunks_info = ChunkInfoOf(list)
        /\ timeline = ChunksTimeline(chunks_info, session_metadata)
        /\ timeline_file = timeline
        /\ vp_pc = "idle"
        /\ vp_max_chunk_length_ms = 50000
        /\ vp_segments = <<>>
        /\ align_pc = "align"
        /\ stt_results = results
        /\ aligned_results = None
        /\ query = None
        /\ query_results = <<>>
        /\ SessionIdle
        /\ VpFresh
        /\ stats = None
        /\ ExtraIdle

\* a TimestampManager has been created; create_session_metadata has not
\* been called yet
InitSession ==
    /\ pc = "session"
    /\ min_speech_duration_ms = 30
    /\ min_silence_duration_ms = 100
    /\ max_chunk_duration_ms = 30000
    /\ session_metadata = None
    /\ frames = <<>>
    /\ scan_i = 0
    /\ in_speech = FALSE
    /\ speech_start = 0
    /\ segments = <<>>
    /\ split_segments = <<>>
    /\ chunks_info = <<>>
    /\ timeline = None
    /\ timeline_file = None
    /\ vp_pc = "idle"
    /\ vp_max_chunk_length_ms = 50000
    /\ vp_segments = <<>>
    /\ AlignIdle
    /\ SessionIdle
    /\ VpFresh
    /\ stats = None
    /\ ExtraIdle

\* no recording is being split, preprocessed or aligned
PipelineIdle ==
    /\ pc = "idle"
    /\ min_speech_duration_ms = 30
    /\ min_silence_duration_ms = 100
    /\ max_chunk_duration_ms = 30000
    /\ session_metadata = None
    /\ frames = <<>>
    /\ scan_i = 0
    /\ in_speech = FALSE
    /\ speech_start = 0
    /\ segments = <<>>
    /\ split_segments = <<>>
    /\ chunks_info = <<>>
    /\ timeline = None
    /\ timeline_file = None
    /\ vp_pc = "idle"
    /\ vp_max_chunk_length_ms = 50000
    /\ vp_segments = <<>>
    /\ AlignIdle
    /\ SessionIdle
    /\ VpFresh
    /\ stats = None

\* an empty output directory; create_chunks_timeline is about to be called
\* on it
InitRebuild == PipelineIdle /\ ExtraIdle

\* a GoogleSTTConfigManager has been constructed without a configuration
\* file; nothing else has run
InitConfig == InitRebuild

\* a GoogleSTTModel has been constructed; nothing else has run
InitStt ==
    /\ PipelineIdle
    /\ RebuildIdle
    /\ ConfigIdle
    /\ BatchIdle
    /\ DirIdle
    /\ \E auto_config \in BOOLEAN,
          model \in {None, <<<<"c", "h", "i", "r", "p", "_", "2">>>>, <<<<"r", "a", "d", "i", "o">>>>},
          location \in {None, <<<<"e", "u">>>>, <<<<"a", "s", "i", "a", "-", "s", "o", "u", "t", "h", "e", "a", "s", "t", "1">>>>} :
          LET self == GoogleSTTModelInit(auto_config, model, location)
          IN  /\ gstt_model = self.model
              /\ gstt_location = self.location
              /\ gstt_api_endpoint = self.api_endpoint
              /\ gstt_config_manager = self.config_manager
    /\ gstt_pc = "idle"
    /\ gstt_env = <<>>
    /\ gstt_stack = <<>>
    /\ gstt_attempts = <<>>
    /\ gstt_result = None
    /\ gstt_before = None
    /\ gstt_calls = 0

\* the splitter has written its chunks and the timeline; a BatchInference
\* has been constructed on the chunk directory
InitBatch ==
    \E n \in 0..MaxBatchChunks, start \in SessionStartChoices,
       model_type \in {"whisper", "google_stt", "gemini"}, with_copy \in BOOLEAN :
        /\ pc = "done"
        /\ min_speech_duration_ms = 30
        /\ min_silence_duration_ms = 100
        /\ max_chunk_duration_ms = 30000
        /\ session_metadata = SessionMetadata(Uuid(1), start)
        /\ frames = <<>>
        /\ scan_i = 0
        /\ in_speech = FALSE
        /\ speech_start = 0
        /\ segments = <<>>
        /\ split_segments = <<>>
        /\ chunks_info =
              ChunkInfoOf([k \in 1..n |-> <<(k - 1) * 3000, 3000>>])
        /\ timeline = ChunksTimeline(chunks_info, session_metadata)
        /\ timeline_file = timeline
        /\ vp_pc = "idle"
        /\ vp_max_chunk_length_ms = 50000
        /\ vp_segments = <<>>
        /\ AlignIdle
        /\ SessionIdle
        /\ VpFresh
        /\ stats = None
        /\ RebuildIdle
        /\ ConfigIdle
        /\ SttIdle
        /\ DirIdle
        /\ batch_pc = "scan"
        /\ batch_model_type = model_type
        /\ batch_files = DirectoryListing(n, with_copy)
        /\ batch_outcomes = <<>>
        /\ batch_results = <<>>
        /\ batch_txt = <<>>
        /\ success_count = 0
        /\ error_count = 0
        /\ batch_json = None

\* a VADPreprocessor exists; process_directory is about to be called on a
\* directory with up to MaxDirFiles .wav files
InitDir ==
    /\ PipelineIdle
    /\ RebuildIdle
    /\ ConfigIdle
    /\ SttIdle
    /\ BatchIdle
    /\ dir_pc = "scan"
    /\ \E n \in 0..MaxDirFiles :
          dir_files = SubSeq(<<"a.wav", "b.wav", "c.wav", "d.wav">>, 1, n)
    /\ dir_results = <<>>
    /\ dir_report_file = None
    /\ dir_return = None

(***************************************************************************)
(* Actions.                                                                *)
(***************************************************************************)
scan_vars == <<frames, scan_i, in_speech, speech_start, segments>>
config_vars == <<min_speech_duration_ms, min_silence_duration_ms,
                 max_chunk_duration_ms>>
rebuild_vars == <<tl_calls, tl_raised, tl_prev>>
config_manager_vars == <<cfg_model_arg, cfg_region_arg, cfg_result>>
gstt_vars == <<gstt_pc, gstt_model, gstt_location, gstt_api_endpoint, gstt_config_manager, gstt_env, gstt_stack, gstt_attempts, gstt_result, gstt_before, gstt_calls>>
batch_vars == <<batch_pc, batch_model_type, batch_files, batch_outcomes, batch_results, batch_txt, success_count, error_count, batch_json>>
dir_vars == <<dir_pc, dir_files, dir_results, dir_report_file, dir_return>>
extra_vars == <<rebuild_vars, config_manager_vars, gstt_vars, batch_vars, dir_vars>>
vp_more == <<vp_requested, vp_available, vp_method, vp_min_speech_ms,
             vp_frames, vp_result>>
vp_vars == <<vp_pc, vp_max_chunk_length_ms, vp_segments, vp_more>>
align_vars == <<align_pc, stt_results, aligned_results, query, query_results>>
session_vars == <<audio_file, session_id_arg, session_error, uuid_issued>>

\* split_audio step 1: create_session_metadata
CreateSessionMetadata ==
    /\ pc = "session"
    /\ uuid_issued' = uuid_issued + 1
    /\ session_metadata' =
          SessionMetadata(Uuid(uuid_issued'),
              ResolveSessionStart(audio_file.stem, audio_file.mtime))
    /\ pc' = "detect"
    /\ UNCHANGED <<config_vars, scan_vars, split_segments, chunks_info,
                   timeline, timeline_file, vp_vars, align_vars, audio_file,
                   session_id_arg, session_error, stats, extra_vars>>

\* _detect_webrtc opens the file: a sample rate or channel count WebRTC
\* does not take is logged and the empty list returned (split_audio step 2
\* is over); otherwise the frames are read
OpenAudio ==
    /\ pc = "detect"
    /\ IF WebrtcSupports(audio_file.sample_rate, audio_file.num_channels)
       THEN /\ pc' = "frames"
            /\ UNCHANGED segments
       ELSE /\ segments' = <<>>
            /\ pc' = "split"
    /\ UNCHANGED <<config_vars, session_metadata, frames, scan_i, in_speech,
                   speech_start, split_segments, chunks_info, timeline,
                   timeline_file, vp_vars, align_vars, session_vars, stats, extra_vars>>

\* _detect_webrtc, one turn of the while-loop: one more whole frame is
\* classified by the detector
ClassifyFrame ==
    /\ pc = "frames"
    /\ Len(frames) < MaxFrames
    /\ \E is_speech \in BOOLEAN : frames' = Append(frames, is_speech)
    /\ UNCHANGED <<pc, config_vars, session_metadata, scan_i, in_speech,
                   speech_start, segments, split_segments, chunks_info,
                   timeline, timeline_file, vp_vars, align_vars, session_vars, stats, extra_vars>>

\* _detect_webrtc: no whole frame is left; the merge loop is set up
StartScan ==
    /\ pc = "frames"
    /\ segments' = <<>>
    /\ in_speech' = FALSE
    /\ speech_start' = 0
    /\ scan_i' = 0
    /\ pc' = "scan"
    /\ UNCHANGED <<config_vars, session_metadata, frames, split_segments,
                   chunks_info, timeline, timeline_file, vp_vars, align_vars, session_vars, stats, extra_vars>>

\* _detect_webrtc: the merge loop's body for frames[scan_i]
ScanFrame ==
    /\ pc = "scan"
    /\ scan_i < Len(frames)
    /\ LET is_speech == frames[scan_i + 1]
       IN  IF is_speech /\ ~in_speech
           THEN /\ speech_start' = FrameMs(scan_i)
                /\ in_speech' = TRUE
                /\ UNCHANGED segments
           ELSE IF ClosesRun(is_speech, in_speech)
           THEN /\ segments' = EmitCandidate(segments, speech_start,
                                    FrameMs(scan_i), min_speech_duration_ms)
                /\ in_speech' = FALSE
                /\ UNCHANGED speech_start
           ELSE UNCHANGED <<segments, in_speech, speech_start>>
    /\ scan_i' = scan_i + 1
    /\ UNCHANGED <<pc, config_vars, session_metadata, frames, split_segments,
                   chunks_info, timeline, timeline_file, vp_vars, align_vars, session_vars, stats, extra_vars>>

\* _detect_webrtc: after the loop, a run still open is flushed; the
\* function returns (split_audio step 2 is over)
FlushScan ==
    /\ pc = "scan"
    /\ scan_i = Len(frames)
    /\ segments' = IF in_speech
                   THEN EmitCandidate(segments, speech_start, FlushEnd(frames),
                                      min_speech_duration_ms)
                   ELSE segments
    /\ pc' = "split"
    /\ UNCHANGED <<config_vars, session_metadata, frames, scan_i, in_speech,
                   speech_start, split_segments, chunks_info, timeline,
                   timeline_file, vp_vars, align_vars, session_vars, stats, extra_vars>>

\* split_audio step 3: _split_long_segments
SplitStep ==
    /\ pc = "split"
    /\ split_segments' = SplitLongSegments(segments, max_chunk_duration_ms)
    /\ pc' = "save"
    /\ UNCHANGED <<config_vars, session_metadata, scan_vars, chunks_info,
                   timeline, timeline_file, vp_vars, align_vars, session_vars, stats, extra_vars>>

\* split_audio step 4: _save_chunks
SaveChunksStep ==
    /\ pc = "save"
    /\ chunks_info' = SaveChunks(split_segments)
    /\ pc' = "timeline"
    /\ UNCHANGED <<config_vars, session_metadata, scan_vars, split_segments,
                   timeline, timeline_file, vp_vars, align_vars, session_vars, stats, extra_vars>>

\* split_audio step 5: create_chunks_timeline builds the timeline, dumps
\* it to chunks_timeline.json and returns it
CreateChunksTimeline ==
    /\ pc = "timeline"
    /\ timeline' = ChunksTimeline(chunks_info, session_metadata)
    /\ timeline_file' = timeline'
    /\ pc' = "done"
    /\ UNCHANGED <<config_vars, session_metadata, scan_vars, split_segments,
                   chunks_info, vp_vars, align_vars, session_vars, stats, extra_vars>>

\* process_audio_file: segments = self.split_long_segments(segments)
VpSplitStep ==
    /\ vp_pc = "split"
    /\ vp_segments' = VpSplitLongSegments(vp_segments, vp_max_chunk_length_ms)
    /\ vp_pc' = "export"
    /\ UNCHANGED <<pc, config_vars, session_metadata, scan_vars,
                   split_segments, chunks_info, timeline, timeline_file,
                   vp_max_chunk_length_ms, vp_more, align_vars,
                   session_vars, stats, extra_vars>>

\* split_audio: the statistics are computed and returned
ComputeStats ==
    /\ pc = "done"
    /\ stats' = SplitStats(chunks_info)
    /\ pc' = "returned"
    /\ UNCHANGED <<config_vars, session_metadata, scan_vars, split_segments,
                   chunks_info, timeline, timeline_file, vp_vars, align_vars,
                   session_vars, extra_vars>>

splitter_vars == <<pc, config_vars, session_metadata, scan_vars,
                   split_segments, chunks_info, timeline, timeline_file,
                   align_vars, session_vars, stats, extra_vars>>

\* VADPreprocessor.__init__
VpConstruct ==
    /\ vp_pc = "new"
    /\ \E vad_method \in VpMethodChoices, available \in VpAvailableChoices,
          min_speech_ms \in VpMinSpeechChoices :
          /\ vp_requested' = vad_method
          /\ vp_available' = available
          /\ vp_method' = VpResolveMethod(vad_method, available)
          /\ vp_min_speech_ms' = min_speech_ms
    /\ vp_pc' = "load"
    /\ UNCHANGED <<splitter_vars, vp_max_chunk_length_ms, vp_segments,
                   vp_frames, vp_result>>

\* process_audio_file: the file is loaded and the detector of vad_method
\* run; a file that cannot be loaded ends in the except branch
VpDetect ==
    /\ vp_pc = "load"
    /\ \E loadable \in BOOLEAN :
          IF ~loadable
          THEN /\ vp_result' = [status |-> "error"]
               /\ vp_pc' = "returned"
               /\ UNCHANGED <<vp_frames, vp_segments>>
          ELSE /\ IF vp_method = "webrtc"
                  THEN \E speech_frames \in FrameStreams :
                          /\ vp_frames' = speech_frames
                          /\ vp_segments' =
                                DetectSpeechSegmentsWebrtc(speech_frames,
                                                           vp_min_speech_ms)
                  ELSE \E found \in LibrarySegmentChoices :
                          /\ vp_frames' = <<>>
                          /\ vp_segments' =
                                IF vp_method = "silero" THEN found
                                ELSE FilterShort(found, vp_min_speech_ms)
               /\ vp_pc' = "check"
               /\ UNCHANGED vp_result
    /\ UNCHANGED <<splitter_vars, vp_max_chunk_length_ms, vp_requested,
                   vp_available, vp_method, vp_min_speech_ms>>

\* process_audio_file: "if not segments" returns the no_speech dict
VpCheck ==
    /\ vp_pc = "check"
    /\ IF vp_segments = <<>>
       THEN /\ vp_result' = NoSpeechResult
            /\ vp_pc' = "returned"
       ELSE /\ vp_pc' = "split"
            /\ UNCHANGED vp_result
    /\ UNCHANGED <<splitter_vars, vp_max_chunk_length_ms, vp_segments,
                   vp_requested, vp_available, vp_method, vp_min_speech_ms,
                   vp_frames>>

\* process_audio_file: the chunks are exported and the success dict
\* returned
VpExport ==
    /\ vp_pc = "export"
    /\ vp_result' = SuccessResult(vp_segments)
    /\ vp_pc' = "returned"
    /\ UNCHANGED <<splitter_vars, vp_max_chunk_length_ms, vp_segments,
                   vp_requested, vp_available, vp_method, vp_min_speech_ms,
                   vp_frames>>

pipeline_vars == <<pc, config_vars, session_metadata, scan_vars,
                   split_segments, chunks_info, timeline, timeline_file>>

base_vars == <<pipeline_vars, vp_vars, align_vars, session_vars, stats>>

\* align_stt_results_with_timeline(stt_results, timeline, "stt")
AlignSttResults ==
    /\ align_pc = "align"
    /\ IF AlignRaises(stt_results, timeline.chunks)
       THEN /\ aligned_results' = None
            /\ align_pc' = "raised"
       ELSE /\ \E now \in NowChoices :
                  aligned_results' =
                      AlignSttResultsWithTimeline(stt_results, timeline,
                                                  "stt", now)
            /\ align_pc' = "query"
    /\ UNCHANGED <<pipeline_vars, vp_vars, stt_results, query, query_results,
                   session_vars, stats, extra_vars>>

\* query_by_time_range(aligned_results, start_time, end_time)
QueryByTimeRangeStep ==
    /\ align_pc = "query"
    /\ \E q \in QueryChoices :
          /\ query' = q
          /\ query_results' = QueryByTimeRange(aligned_results, q[1], q[2])
    /\ align_pc' = "done"
    /\ UNCHANGED <<pipeline_vars, vp_vars, stt_results, aligned_results,
                   session_vars, stats, extra_vars>>

\* one call create_session_metadata(audio_file, test_case, mode,
\* session_id) on a TimestampManager used on its own
CreateSessionMetadataCall ==
    /\ uuid_issued < MaxSessionCalls
    /\ \E file \in AudioFileChoices, session_id \in SessionIdChoices :
          /\ audio_file' = file
          /\ session_id_arg' = session_id
          /\ session_error' = SessionRaises(file)
          /\ uuid_issued' = IF file.exists /\ NeedsUuid(session_id)
                            THEN uuid_issued + 1 ELSE uuid_issued
          /\ session_metadata' =
                IF SessionRaises(file) # "" THEN None
                ELSE SessionMetadata(
                        IF NeedsUuid(session_id) THEN Uuid(uuid_issued')
                        ELSE session_id[1],
                        ResolveSessionStart(file.stem, file.mtime))
    /\ UNCHANGED <<pc, config_vars, scan_vars, split_segments, chunks_info,
                   timeline, timeline_file, vp_vars, align_vars, stats, extra_vars>>

\* one call of create_chunks_timeline on the directory, with any chunk
\* list and session metadata
CreateChunksTimelineCall ==
    /\ tl_calls < MaxTimelineCalls
    /\ \E chunks \in RebuildChunkLists, start \in SessionStartChoices :
          LET metadata == SessionMetadata(Uuid(1), start)
          IN  /\ chunks_info' = chunks
              /\ session_metadata' = metadata
              /\ tl_raised' = TimelineRaises(chunks)
              /\ timeline' =
                    IF TimelineRaises(chunks) # "" THEN None
                    ELSE TimelineReturned(chunks, metadata, timeline_file)
              /\ timeline_file' =
                    TimelineFileAfter(chunks, metadata, timeline_file)
    /\ tl_prev' = IF tl_calls > 0 /\ tl_raised = ""
                  THEN [chunks_info      |-> chunks_info,
                        session_metadata |-> session_metadata,
                        timeline         |-> timeline]
                  ELSE tl_prev
    /\ tl_calls' = tl_calls + 1
    /\ UNCHANGED <<pc, config_vars, scan_vars, split_segments, vp_vars,
                   align_vars, session_vars, stats, config_manager_vars,
                   gstt_vars, batch_vars, dir_vars>>

\* one call of get_optimal_config on a manager that holds DEFAULT_CONFIG
GetOptimalConfigCall ==
    /\ \E model \in ModelArgChoices, preferred_region \in RegionArgChoices :
          /\ cfg_model_arg' = model
          /\ cfg_region_arg' = preferred_region
          /\ cfg_result' =
                GetOptimalConfig(DEFAULT_CONFIG, model, preferred_region)
    /\ UNCHANGED <<base_vars, rebuild_vars, gstt_vars, batch_vars, dir_vars>>

\* transcribe_file is called on the model
SttCall ==
    /\ gstt_pc \in {"idle", "returned"}
    /\ gstt_calls < MaxSttCalls
    /\ \E env \in [{gstt_location}
                      \cup {FallbackRegions(gstt_model)[i] :
                               i \in 1..Len(FallbackRegions(gstt_model))}
                      -> RecognizeOutcomes] :
          /\ env[gstt_location] # "no_client"
          /\ gstt_env' = env
    /\ gstt_calls' = gstt_calls + 1
    /\ gstt_before' = <<gstt_location, gstt_api_endpoint>>
    /\ gstt_attempts' = <<>>
    /\ gstt_result' = None
    /\ gstt_pc' = "recognize"
    /\ UNCHANGED <<gstt_model, gstt_location, gstt_api_endpoint,
                   gstt_config_manager, gstt_stack>>
    /\ UNCHANGED <<base_vars, rebuild_vars, config_manager_vars, batch_vars,
                   dir_vars>>

\* transcribe_file, lines 329-448: client.recognize at self.location and
\* the except branch
Recognize ==
    /\ gstt_pc = "recognize"
    /\ gstt_attempts' = Append(gstt_attempts, gstt_location)
    /\ LET answer == gstt_env[gstt_location]
       IN  IF answer = "wrong_location" /\ gstt_config_manager
           THEN /\ gstt_stack' =
                      Append(gstt_stack,
                             [idx               |-> 1,
                              original_location |-> gstt_location,
                              original_endpoint |-> gstt_api_endpoint,
                              original_error    |-> WrongLocation])
                /\ gstt_pc' = "fallback"
                /\ UNCHANGED gstt_result
           ELSE /\ gstt_result' =
                      CASE answer = "text" ->
                              [transcript |-> "text", error |-> None]
                        [] answer = "empty" ->
                              [transcript |-> "", error |-> None]
                        [] answer = "wrong_location" -> SttError(WrongLocation)
                        [] OTHER -> SttError("recognize failed")
                /\ gstt_pc' = "deliver"
                /\ UNCHANGED gstt_stack
    /\ UNCHANGED <<gstt_model, gstt_location, gstt_api_endpoint,
                   gstt_config_manager, gstt_env, gstt_before, gstt_calls>>
    /\ UNCHANGED <<base_vars, rebuild_vars, config_manager_vars, batch_vars,
                   dir_vars>>

\* _try_fallback_regions, lines 460-498: the loop takes its next region
FallbackStep ==
    /\ gstt_pc = "fallback"
    /\ LET n == Len(gstt_stack)
           frame == gstt_stack[n]
           fallback_regions == FallbackRegions(gstt_model)
           continue == [gstt_stack EXCEPT ![n].idx = frame.idx + 1]
       IN  IF frame.idx > Len(fallback_regions)
           THEN \* all fallbacks failed: the error dict goes to the caller
                /\ gstt_result' = SttError(frame.original_error)
                /\ gstt_stack' = SubSeq(gstt_stack, 1, n - 1)
                /\ gstt_pc' = "deliver"
                /\ UNCHANGED <<gstt_location, gstt_api_endpoint>>
           ELSE LET fallback_region == fallback_regions[frame.idx]
                    tried == [continue EXCEPT
                                 ![n].original_location = gstt_location,
                                 ![n].original_endpoint = gstt_api_endpoint]
                IN  IF fallback_region = gstt_location
                    THEN /\ gstt_stack' = continue
                         /\ UNCHANGED <<gstt_location, gstt_api_endpoint,
                                        gstt_result, gstt_pc>>
                    ELSE IF gstt_env[fallback_region] = "no_client"
                    THEN \* SpeechClient raises: the except branch puts
                         \* location and endpoint back
                         /\ gstt_stack' = tried
                         /\ UNCHANGED <<gstt_location, gstt_api_endpoint,
                                        gstt_result, gstt_pc>>
                    ELSE IF n < MaxSttDepth
                    THEN /\ gstt_stack' =
                               [tried EXCEPT ![n].idx = frame.idx]
                         /\ gstt_location' = fallback_region
                         /\ gstt_api_endpoint' =
                               fallback_region \o <<"-speech.googleapis.com">>
                         /\ gstt_pc' = "recognize"
                         /\ UNCHANGED gstt_result
                    ELSE \* the recursion limit: RecursionError is raised
                         \* either inside the try of transcribe_file, which
                         \* returns it as an error dict, or before it, where
                         \* the except branch of the loop catches it
                         \/ /\ gstt_stack' = tried
                            /\ gstt_location' = fallback_region
                            /\ gstt_api_endpoint' =
                                  fallback_region
                                     \o <<"-speech.googleapis.com">>
                            /\ UNCHANGED <<gstt_result, gstt_pc>>
                         \/ /\ gstt_stack' = tried
                            /\ UNCHANGED <<gstt_location, gstt_api_endpoint,
                                           gstt_result, gstt_pc>>
    /\ UNCHANGED <<gstt_model, gstt_config_manager, gstt_env, gstt_attempts,
                   gstt_before, gstt_calls>>
    /\ UNCHANGED <<base_vars, rebuild_vars, config_manager_vars, batch_vars,
                   dir_vars>>

\* the dict of a nested transcribe_file call reaches the loop that made the
\* call (lines 479-483)
Deliver ==
    /\ gstt_pc = "deliver"
    /\ gstt_stack # <<>>
    /\ LET n == Len(gstt_stack)
           frame == gstt_stack[n]
       IN  IF gstt_result.error = None
           THEN \* return result: out of the loop and of the enclosing
                \* transcribe_file
                /\ gstt_stack' = SubSeq(gstt_stack, 1, n - 1)
                /\ UNCHANGED <<gstt_location, gstt_api_endpoint, gstt_pc>>
           ELSE \* the loop goes on; the assignments of lines 471-472
                \* stand, only the except branch puts the originals back
                /\ gstt_stack' = [gstt_stack EXCEPT ![n].idx = frame.idx + 1]
                /\ gstt_pc' = "fallback"
                /\ UNCHANGED <<gstt_location, gstt_api_endpoint>>
    /\ UNCHANGED <<gstt_model, gstt_config_manager, gstt_env, gstt_attempts,
                   gstt_result, gstt_before, gstt_calls>>
    /\ UNCHANGED <<base_vars, rebuild_vars, config_manager_vars, batch_vars,
                   dir_vars>>

\* the outermost transcribe_file returns its dict
SttReturn ==
    /\ gstt_pc = "deliver"
    /\ gstt_stack = <<>>
    /\ gstt_pc' = "returned"
    /\ UNCHANGED <<gstt_model, gstt_location, gstt_api_endpoint,
                   gstt_config_manager, gstt_env, gstt_stack, gstt_attempts,
                   gstt_result, gstt_before, gstt_calls>>
    /\ UNCHANGED <<base_vars, rebuild_vars, config_manager_vars, batch_vars,
                   dir_vars>>

\* run, lines 594-611: the scan of input_dir
BatchScan ==
    /\ batch_pc = "scan"
    /\ batch_pc' = IF batch_files = <<>> THEN "returned" ELSE "loop"
    /\ UNCHANGED <<batch_model_type, batch_files, batch_outcomes,
                   batch_results, batch_txt, success_count, error_count,
                   batch_json>>
    /\ UNCHANGED <<base_vars, rebuild_vars, config_manager_vars, gstt_vars,
                   dir_vars>>

\* run, lines 619-649: one pass of the loop
ProcessFile ==
    /\ batch_pc = "loop"
    /\ Len(batch_outcomes) < Len(batch_files)
    /\ \E outcome \in {"text", "empty", "fails"} :
          LET chunk_id == Stem(batch_files[Len(batch_outcomes) + 1])
              call == TranscribeFile(batch_model_type, outcome)
              counts == CountsAfter(call, success_count, error_count)
          IN  /\ batch_outcomes' = Append(batch_outcomes, outcome)
              /\ IF call.raised
                 THEN /\ batch_results' =
                            DictSet(batch_results, chunk_id,
                                    [transcript     |-> <<>>,
                                     transcript_raw |-> <<>>,
                                     error          |-> call.error])
                      /\ UNCHANGED batch_txt
                 ELSE LET result ==
                              [call.result EXCEPT
                                 !.transcript = FixRadioJargon(@)]
                      IN  /\ batch_txt' =
                                DictSet(batch_txt, chunk_id,
                                        result.transcript)
                          /\ batch_results' =
                                DictSet(batch_results, chunk_id, result)
              /\ success_count' = counts[1]
              /\ error_count' = counts[2]
    /\ UNCHANGED <<batch_pc, batch_model_type, batch_files, batch_json>>
    /\ UNCHANGED <<base_vars, rebuild_vars, config_manager_vars, gstt_vars,
                   dir_vars>>

\* run, lines 651-678: the results JSON and the return.  Whether json.dump
\* accepts the client library's response object depends on the library:
\* either the file is complete and run returns, or the dump raises TypeError
\* half way.
SaveResultsJson ==
    /\ batch_pc = "loop"
    /\ Len(batch_outcomes) = Len(batch_files)
    /\ \E complete \in BOOLEAN :
          /\ ~complete => ~JsonSerialisable(batch_results)
          /\ batch_json' =
                [metadata |-> BatchMetadata(batch_model_type, batch_results,
                                            success_count, error_count),
                 complete |-> complete]
          /\ batch_pc' = IF complete THEN "returned" ELSE "raised"
    /\ UNCHANGED <<batch_model_type, batch_files, batch_outcomes,
                   batch_results, batch_txt, success_count, error_count>>
    /\ UNCHANGED <<base_vars, rebuild_vars, config_manager_vars, gstt_vars,
                   dir_vars>>

\* the dict run returned is handed to align_stt_results_with_timeline
AlignBatchResults ==
    /\ batch_pc = "returned"
    /\ batch_files # <<>>
    /\ align_pc = "idle"
    /\ stt_results' = batch_results
    /\ align_pc' = "align"
    /\ UNCHANGED <<pipeline_vars, vp_vars, aligned_results, query,
                   query_results, session_vars, stats, extra_vars>>

\* create_timestamped_results, lines 141-154: no results JSON of the name
\* it looks for, so the results are built from the text files
ReadTextFiles ==
    /\ batch_pc \in {"returned", "raised"}
    /\ batch_files # <<>>
    /\ align_pc = "idle"
    /\ stt_results' = TextFileResults(batch_txt)
    /\ align_pc' = "align"
    /\ UNCHANGED <<pipeline_vars, vp_vars, aligned_results, query,
                   query_results, session_vars, stats, extra_vars>>

\* process_directory, lines 367-375: the glob
DirScan ==
    /\ dir_pc = "scan"
    /\ IF dir_files = <<>>
       THEN /\ dir_pc' = "returned"
            /\ dir_return' = <<>>
       ELSE /\ dir_pc' = "loop"
            /\ UNCHANGED dir_return
    /\ UNCHANGED <<dir_files, dir_results, dir_report_file>>
    /\ UNCHANGED <<base_vars, rebuild_vars, config_manager_vars, gstt_vars,
                   batch_vars>>

\* process_directory, lines 391-394: process_audio_file on the next file
DirProcessFile ==
    /\ dir_pc = "loop"
    /\ Len(dir_results) < Len(dir_files)
    /\ \E result \in FileResultChoices(dir_files[Len(dir_results) + 1]) :
          dir_results' = Append(dir_results, result)
    /\ UNCHANGED <<dir_pc, dir_files, dir_report_file, dir_return>>
    /\ UNCHANGED <<base_vars, rebuild_vars, config_manager_vars, gstt_vars,
                   batch_vars>>

\* process_directory, lines 396-442: the report is written, the summary
\* logged and the report returned
DirFinish ==
    /\ dir_pc = "loop"
    /\ Len(dir_results) = Len(dir_files)
    /\ dir_report_file' = DirReport(dir_results)
    /\ IF SummaryRaises(dir_results)
       THEN /\ dir_pc' = "raised"
            /\ UNCHANGED dir_return
       ELSE /\ dir_pc' = "returned"
            /\ dir_return' = DirReport(dir_results)
    /\ UNCHANGED <<dir_files, dir_results>>
    /\ UNCHANGED <<base_vars, rebuild_vars, config_manager_vars, gstt_vars,
                   batch_vars>>

Next ==
    \/ CreateSessionMetadata
    \/ OpenAudio
    \/ ClassifyFrame
    \/ StartScan
    \/ ScanFrame
    \/ FlushScan
    \/ SplitStep
    \/ SaveChunksStep
    \/ CreateChunksTimeline
    \/ ComputeStats
    \/ VpConstruct
    \/ VpDetect
    \/ VpCheck
    \/ VpSplitStep
    \/ VpExport

Spec == Init /\ [][Next]_vars

NextSplit ==
    \/ SplitStep
    \/ SaveChunksStep
    \/ VpSplitStep

SpecSplit == InitSplit /\ [][NextSplit]_vars

NextTimeline == CreateChunksTimeline

SpecTimeline == InitTimeline /\ [][NextTimeline]_vars

NextAlign ==
    \/ AlignSttResults
    \/ QueryByTimeRangeStep

SpecAlign == InitAlign /\ [][NextAlign]_vars

NextSession == CreateSessionMetadataCall

SpecSession == InitSession /\ [][NextSession]_vars

NextRebuild == CreateChunksTimelineCall

SpecRebuild == InitRebuild /\ [][NextRebuild]_vars

NextConfig == GetOptimalConfigCall

SpecConfig == InitConfig /\ [][NextConfig]_vars

NextStt == SttCall \/ Recognize \/ FallbackStep \/ Deliver \/ SttReturn

SpecStt == InitStt /\ [][NextStt]_vars

NextBatch ==
    \/ BatchScan
    \/ ProcessFile
    \/ SaveResultsJson
    \/ AlignBatchResults
    \/ ReadTextFiles
    \/ AlignSttResults

SpecBatch == InitBatch /\ [][NextBatch]_vars

NextDir == DirScan \/ DirProcessFile \/ DirFinish

SpecDir == InitDir /\ [][NextDir]_vars

(***************************************************************************)
(* Properties.                                                             *)
(***************************************************************************)
AfterSplit == pc \in {"save", "timeline", "done", "returned"}
AfterScan == pc \in {"split", "save", "timeline", "done", "returned"}

\* the interval handed to the splitter under SpecSplit
SplitInterval == segments[1]
SplitDuration == SplitInterval.end - SplitInterval.start

\* the least n >= 1 with n * m >= d, i.e. ceil(d / m)
CeilDiv(d, m) == CHOOSE n \in 1..d : n * m >= d /\ (n - 1) * m < d

\* C1: after speech detection and long-segment splitting the emitted
\* segments do not overlap and their offsets strictly increase: for every
\* pair of consecutive segments offset[i] + duration[i] <= offset[i+1].
Thm_C1 ==
    /\ AfterSplit =>
          \A k \in 1..(Len(split_segments) - 1) :
              /\ split_segments[k].end <= split_segments[k + 1].start
              /\ split_segments[k].start < split_segments[k + 1].start
    /\ \A k \in 1..(Len(chunks_info) - 1) :
          /\ chunks_info[k].offset_ms + chunks_info[k].duration_ms
                <= chunks_info[k + 1].offset_ms
          /\ chunks_info[k].offset_ms < chunks_info[k + 1].offset_ms

\* two speech runs were detected and at least one of them was split
Witness_C1 ==
    /\ pc = "done"
    /\ Len(segments) >= 2
    /\ Len(chunks_info) > Len(segments)

\* sub-segments out exactly tile the interval [first, last)
Tiles(out_start, out_end, n, first, last) ==
    /\ n >= 1
    /\ out_start[1] = first
    /\ \A k \in 1..(n - 1) : out_start[k + 1] = out_end[k]
    /\ out_end[n] = last

\* C2: the sub-segments of a split interval exactly tile it: the first
\* starts at the interval's start, each next one starts where the previous
\* ended, and the last ends exactly at the interval's end.
CE_C2 ==
    /\ (pc = "save" /\ Len(segments) = 1) =>
          Tiles([k \in 1..Len(split_segments) |-> split_segments[k].start],
                [k \in 1..Len(split_segments) |-> split_segments[k].end],
                Len(split_segments), SplitInterval.start, SplitInterval.end)
    /\ (vp_pc = "export" /\ Len(segments) = 1) =>
          Tiles([k \in 1..Len(vp_segments) |-> vp_segments[k][1]],
                [k \in 1..Len(vp_segments) |-> vp_segments[k][2]],
                Len(vp_segments), SplitInterval.start, SplitInterval.end)

\* C3: every segment returned by the splitter is no longer than the
\* configured maximum chunk duration.
Thm_C3 ==
    /\ AfterSplit =>
          \A k \in 1..Len(split_segments) :
              split_segments[k].end - split_segments[k].start
                 <= max_chunk_duration_ms
    /\ vp_pc = "export" =>
          \A k \in 1..Len(vp_segments) :
              vp_segments[k][2] - vp_segments[k][1] <= vp_max_chunk_length_ms

\* an interval was cut whose duration is not a multiple of the number of
\* sub-segments
Witness_C3 ==
    /\ pc = "save"
    /\ vp_pc = "export"
    /\ Len(split_segments) >= 2
    /\ SplitDuration % Len(split_segments) # 0

\* C4: an interval of duration d is cut into exactly ceil(d / m)
\* sub-segments, any two of which differ in duration by at most 1 ms.
Thm_C4 ==
    /\ (pc = "save" /\ Len(segments) = 1) =>
          /\ Len(split_segments) = CeilDiv(SplitDuration, max_chunk_duration_ms)
          /\ \A j, k \in 1..Len(split_segments) :
                (split_segments[j].end - split_segments[j].start)
                  - (split_segments[k].end - split_segments[k].start) <= 1
    /\ (vp_pc = "export" /\ Len(segments) = 1) =>
          /\ Len(vp_segments) = CeilDiv(SplitDuration, vp_max_chunk_length_ms)
          /\ \A j, k \in 1..Len(vp_segments) :
                (vp_segments[j][2] - vp_segments[j][1])
                  - (vp_segments[k][2] - vp_segments[k][1]) <= 1

\* three or more sub-segments where maximum-sized chunks would leave a
\* shorter remainder
Witness_C4 ==
    /\ pc = "save"
    /\ vp_pc = "export"
    /\ Len(segments) = 1
    /\ Len(split_segments) >= 3
    /\ SplitDuration % max_chunk_duration_ms # 0
    /\ split_segments[1].end - split_segments[1].start < max_chunk_duration_ms

\* the worked example: (offset 12000, duration 45000), maximum 30000
IsExample_C5 ==
    /\ segments = <<[start |-> 12000, end |-> 57000]>>
    /\ max_chunk_duration_ms = 30000

\* C5: splitting (offset 12000 ms, duration 45000 ms) with a maximum of
\* 30000 ms yields exactly (12000, 22500) and (34500, 22500).
Thm_C5 ==
    IsExample_C5 =>
       /\ pc \in {"save", "timeline"} =>
             split_segments = <<[start |-> 12000, end |-> 34500],
                                [start |-> 34500, end |-> 57000]>>
       /\ pc = "timeline" =>
             /\ Len(chunks_info) = 2
             /\ chunks_info[1].offset_ms = 12000
             /\ chunks_info[1].duration_ms = 22500
             /\ chunks_info[2].offset_ms = 34500
             /\ chunks_info[2].duration_ms = 22500
       /\ vp_pc = "export" =>
             vp_segments = <<<<12000, 34500>>, <<34500, 57000>>>>

\* the example has been split and its chunks saved
Witness_C5 == IsExample_C5 /\ pc = "timeline" /\ vp_pc = "export"

\* frames a+1 .. b (1-based) are all speech / all non-speech
AllSpeech(a, b) == \A k \in a..b : frames[k]
NoSpeech(a, b) == \A k \in a..b : ~frames[k]

\* frames a .. b (1-based) are a maximal run of speech frames
MaximalRun(a, b) ==
    /\ a \in 1..Len(frames) /\ b \in a..Len(frames)
    /\ AllSpeech(a, b)
    /\ (a = 1 \/ ~frames[a - 1])
    /\ (b = Len(frames) \/ ~frames[b + 1])

\* speech frames a and b (1-based) are separated by non-speech frames only,
\* fewer than the minimum silence duration holds
ShortGap(a, b) ==
    /\ a \in 1..Len(frames) /\ b \in (a + 2)..Len(frames)
    /\ frames[a] /\ frames[b]
    /\ NoSpeech(a + 1, b - 1)
    /\ (b - a - 1) * 30 < min_silence_duration_ms

\* C6: hysteresis absorption: a speech run interrupted by non-speech frames
\* for less than the minimum silence duration is not split; one segment
\* spans from the speech before the gap to the speech after it.
CE_C6 ==
    AfterScan =>
       \A a, b \in 1..Len(frames) :
          (ShortGap(a, b) /\ (b - a + 1) * 30 >= min_speech_duration_ms) =>
             \E k \in 1..Len(segments) :
                /\ segments[k].start <= (a - 1) * 30
                /\ segments[k].end >= b * 30

\* C7: hysteresis discard: a candidate run shorter than the minimum speech
\* duration yields no segment and is not merged into a neighbour; every
\* segment emitted by the scan lasts at least the minimum speech duration.
Thm_C7 ==
    /\ \A k \in 1..Len(segments) :
          segments[k].end - segments[k].start >= min_speech_duration_ms
    /\ AfterScan =>
          \A a, b \in 1..Len(frames) :
             (MaximalRun(a, b) /\ (b - a + 1) * 30 < min_speech_duration_ms) =>
                \A k \in 1..Len(segments) :
                   \/ segments[k].end <= (a - 1) * 30
                   \/ segments[k].start >= b * 30

\* a short run was dropped next to a run that was kept
Witness_C7 ==
    /\ pc = "split"
    /\ Len(segments) >= 1
    /\ \E a, b \in 1..Len(frames) :
          MaximalRun(a, b) /\ (b - a + 1) * 30 < min_speech_duration_ms

\* C8: end-of-stream flush: when the scan is still in speech after the last
\* frame, the open run becomes a final candidate that ends at the end of
\* the last whole frame, kept under the same minimum-duration rule.
Thm_C8 ==
    (pc = "split" /\ in_speech) =>
       IF Len(frames) * 30 - speech_start >= min_speech_duration_ms
       THEN /\ Len(segments) >= 1
            /\ segments[Len(segments)] =
                  [start |-> speech_start, end |-> Len(frames) * 30]
       ELSE \A k \in 1..Len(segments) : segments[k].end <= speech_start

\* the stream ended in speech, after an earlier segment, and the final run
\* was kept
Witness_C8 ==
    /\ pc = "split"
    /\ in_speech
    /\ Len(segments) >= 2
    /\ segments[Len(segments)].end = Len(frames) * 30

\* milliseconds since midnight of a formatted timestamp
MsOfDay(t) == ((t.hh * 60 + t.mm) * 60 + t.ss) * 1000 + t.ms

WellFormedTime(t) ==
    t.hh \in 0..23 /\ t.mm \in 0..59 /\ t.ss \in 0..59 /\ t.ms \in 0..999

\* formatted timestamp t lies ms milliseconds after millisecond ref_ms of
\* the day ref_date
IsPlusMs(t, ref_date, ref_ms, ms) ==
    /\ WellFormedTime(t)
    /\ t.date = ref_date + ((ref_ms + ms) \div 86400000)
    /\ MsOfDay(t) = (ref_ms + ms) % 86400000

\* C9: for every timeline segment absolute_start = session_start +
\* offset_ms and absolute_end = absolute_start + duration_ms, to the
\* millisecond (14:00:00.000 with offset 300000, duration 5000 gives
\* 14:05:00.000 and 14:05:05.000).  session_start is the instant the
\* session metadata records as session_start_unix.
Thm_C9 ==
    timeline # None =>
       \A k \in 1..Len(timeline.chunks) :
          LET c == timeline.chunks[k]
              u == session_metadata.session_start_unix
          IN  /\ IsPlusMs(c.absolute_start,
                          719163 + (u.s \div 86400),
                          (u.s % 86400) * 1000 + (u.us \div 1000),
                          c.offset_ms)
              /\ IsPlusMs(c.absolute_end, c.absolute_start.date,
                          MsOfDay(c.absolute_start), c.duration_ms)
              /\ (/\ session_metadata.session_start_time =
                       [date |-> 739586, hh |-> 14, mm |-> 0, ss |-> 0, ms |-> 0]
                  /\ c.offset_ms = 300000
                  /\ c.duration_ms = 5000) =>
                    /\ c.absolute_start =
                        [date |-> 739586, hh |-> 14, mm |-> 5, ss |-> 0, ms |-> 0]
                    /\ c.absolute_end =
                        [date |-> 739586, hh |-> 14, mm |-> 5, ss |-> 5, ms |-> 0]

\* a timeline holding the worked example
Witness_C9 ==
    /\ timeline # None
    /\ Len(timeline.chunks) >= 1
    /\ session_metadata.session_start_time =
          [date |-> 739586, hh |-> 14, mm |-> 0, ss |-> 0, ms |-> 0]
    /\ timeline.chunks[1].offset_ms = 300000
    /\ timeline.chunks[1].duration_ms = 5000

\* the chunk list is sorted by offset and no chunk overlaps the next
SortedNonOverlapping(chunks) ==
    \A k \in 1..(Len(chunks) - 1) :
        chunks[k].offset_ms + chunks[k].duration_ms <= chunks[k + 1].offset_ms

Aligned == align_pc \in {"query", "done"}

\* a is not later than b, both formatted timestamps taken as instants
TimeLeq(a, b) ==
    \/ a.date < b.date
    \/ a.date = b.date /\ MsOfDay(a) <= MsOfDay(b)

\* the timeline segment with the given id
TimelineSegment(chunk_id) ==
    CHOOSE c \in {timeline.chunks[k] : k \in 1..Len(timeline.chunks)} :
        c.chunk_id = chunk_id

\* the result stt_results holds under the given id
ResultOf(chunk_id) ==
    (CHOOSE item \in {stt_results[k] : k \in 1..Len(stt_results)} :
        item[1] = chunk_id)[2]

InTimeline(chunk_id) ==
    \E k \in 1..Len(timeline.chunks) : timeline.chunks[k].chunk_id = chunk_id

InResults(chunk_id) ==
    \E k \in 1..Len(stt_results) : stt_results[k][1] = chunk_id

\* the tokens (event index, word index) whose end offset exceeds the
\* duration of their segment
OverlongTokens ==
    {kj \in (1..MaxResults) \X (1..2) :
        /\ kj[1] <= Len(aligned_results.events)
        /\ "words" \in DOMAIN aligned_results.events[kj[1]]
        /\ kj[2] <= Len(aligned_results.events[kj[1]].words)
        /\ aligned_results.events[kj[1]].words[kj[2]].end_offset_ms >
              TimelineSegment(aligned_results.events[kj[1]].chunk_id)
                  .duration_ms}

NamelessWord ==
    \E k \in 1..Len(stt_results) :
       /\ InTimeline(stt_results[k][1])
       /\ "words" \in DOMAIN stt_results[k][2]
       /\ \E j \in 1..Len(stt_results[k][2].words) :
             "word" \notin DOMAIN stt_results[k][2].words[j]

\* C12: an id of stt_results that is in no timeline segment is skipped:
\* it never makes the alignment fail (the call raises only for a word
\* without text), and the number of events equals the number of map keys
\* that are ids of the timeline.
Thm_C12 ==
    /\ align_pc = "raised" => NamelessWord
    /\ Aligned =>
          /\ Len(aligned_results.events) =
                Cardinality({k \in 1..Len(stt_results) :
                                InTimeline(stt_results[k][1])})
          /\ \A k \in 1..Len(aligned_results.events) :
                InTimeline(aligned_results.events[k].chunk_id)

\* a map whose first id is unknown and whose second id is in the timeline
Witness_C12 ==
    /\ Aligned
    /\ Len(stt_results) = 2
    /\ ~InTimeline(stt_results[1][1])
    /\ InTimeline(stt_results[2][1])
    /\ Len(aligned_results.events) = 1

\* C13: the events are in non-decreasing order of absolute_start, whatever
\* the order of the map's items.
Thm_C13 ==
    Aligned =>
       \A k \in 1..(Len(aligned_results.events) - 1) :
          TimeLeq(aligned_results.events[k].absolute_start,
                  aligned_results.events[k + 1].absolute_start)

\* the map lists a segment of the next day before one of this day
Witness_C13 ==
    /\ Aligned
    /\ Len(stt_results) = 2
    /\ Len(aligned_results.events) = 2
    /\ TimelineSegment(stt_results[1][1]).absolute_start.date >
          TimelineSegment(stt_results[2][1]).absolute_start.date

\* a "YYYY-MM-DD HH:MM:SS" query bound as an instant
QueryStamp(s) ==
    [date |-> s.date, hh |-> s.hh, mm |-> s.mm, ss |-> s.ss, ms |-> 0]

\* the start of the second an instant lies in
FloorSecond(t) ==
    [date |-> t.date, hh |-> t.hh, mm |-> t.mm, ss |-> t.ss, ms |-> 0]

\* C14 as stated: the query returns exactly the events with
\* start <= absolute_start < end.
CE_C14 ==
    align_pc = "done" =>
       LET InRange(e) ==
               /\ TimeLeq(QueryStamp(query[1]), e.absolute_start)
               /\ ~TimeLeq(QueryStamp(query[2]), e.absolute_start)
       IN  query_results = SelectSeq(aligned_results.events, InRange)

\* C14 amended: the query returns, in event order, exactly the events
\* whose absolute_start, cut down to the whole second, lies in the closed
\* range start <= t <= end: an event at end, or less than a second after
\* it, is returned.
Thm_C14 ==
    align_pc = "done" =>
       LET InRange(e) ==
               /\ TimeLeq(QueryStamp(query[1]), FloorSecond(e.absolute_start))
               /\ TimeLeq(FloorSecond(e.absolute_start), QueryStamp(query[2]))
       IN  query_results = SelectSeq(aligned_results.events, InRange)

\* the query returned an event that starts at end and one that starts 30 ms
\* after end
Witness_C14 ==
    /\ align_pc = "done"
    /\ \E a, b \in 1..Len(query_results) :
          /\ query_results[a].absolute_start = QueryStamp(query[2])
          /\ query_results[b].absolute_start.ms = 30
          /\ FloorSecond(query_results[b].absolute_start) =
                QueryStamp(query[2])

\* C15: the tokens of an event are those of the result in the same order,
\* and a token whose end offset does not exceed the segment's duration has
\* absolute_start and absolute_end equal to the segment's absolute_start
\* plus its start and end offsets.
Thm_C15 ==
    Aligned =>
       \A k \in 1..Len(aligned_results.events) :
          LET e == aligned_results.events[k]
              r == ResultOf(e.chunk_id)
              seg == TimelineSegment(e.chunk_id)
          IN  /\ "words" \in DOMAIN e <=> "words" \in DOMAIN r
              /\ "words" \in DOMAIN e =>
                    /\ Len(e.words) = Len(r.words)
                    /\ \A j \in 1..Len(e.words) :
                          LET w == e.words[j]
                              given == r.words[j]
                          IN  /\ w.word = given.word
                              /\ "start_ms" \in DOMAIN given =>
                                    w.start_offset_ms = given.start_ms
                              /\ "end_ms" \in DOMAIN given =>
                                    w.end_offset_ms = given.end_ms
                              /\ w.end_offset_ms <= seg.duration_ms =>
                                    /\ IsPlusMs(w.absolute_start,
                                           seg.absolute_start.date,
                                           MsOfDay(seg.absolute_start),
                                           w.start_offset_ms)
                                    /\ IsPlusMs(w.absolute_end,
                                           seg.absolute_start.date,
                                           MsOfDay(seg.absolute_start),
                                           w.end_offset_ms)

\* two tokens aligned in a segment that starts 30 ms into a second; the
\* first one ends 150 ms into the segment
Witness_C15 ==
    /\ Aligned
    /\ \E k \in 1..Len(aligned_results.events) :
          LET e == aligned_results.events[k]
          IN  /\ "words" \in DOMAIN e
              /\ Len(e.words) = 2
              /\ e.absolute_start.ms = 30
              /\ e.words[1].end_offset_ms = 150
              /\ e.words[1].absolute_end.ms = 180
              /\ TimelineSegment(e.chunk_id).duration_ms = 3000

\* C16: every timeline segment with an entry in the map has exactly one
\* event and every other segment has none; an event's absolute_start and
\* absolute_end are those of the timeline segment with its id.
Thm_C16 ==
    Aligned =>
       /\ \A k \in 1..Len(timeline.chunks) :
             Cardinality({j \in 1..Len(aligned_results.events) :
                 aligned_results.events[j].chunk_id =
                    timeline.chunks[k].chunk_id})
             = IF InResults(timeline.chunks[k].chunk_id) THEN 1 ELSE 0
       /\ \A j \in 1..Len(aligned_results.events) :
             \E k \in 1..Len(timeline.chunks) :
                /\ timeline.chunks[k].chunk_id =
                      aligned_results.events[j].chunk_id
                /\ timeline.chunks[k].absolute_start =
                      aligned_results.events[j].absolute_start
                /\ timeline.chunks[k].absolute_end =
                      aligned_results.events[j].absolute_end

\* of two segments with different times only the second has a result
Witness_C16 ==
    /\ Aligned
    /\ Len(timeline.chunks) = 2
    /\ timeline.chunks[1].absolute_start # timeline.chunks[2].absolute_start
    /\ ~InResults(timeline.chunks[1].chunk_id)
    /\ InResults(timeline.chunks[2].chunk_id)
    /\ Len(aligned_results.events) = 1

(***************************************************************************)
(* Session Start Resolver and session identifier.                          *)
(***************************************************************************)
SessionReturned == audio_file # None /\ session_error = ""

StemParts == Split(audio_file.stem, "_")

\* days from 1970-01-01 to a date of the Gregorian calendar
DaysFromEpoch(year, month, day) ==
    LET y   == IF month <= 2 THEN year - 1 ELSE year
        era == y \div 400
        yoe == y - era * 400
        mp  == IF month > 2 THEN month - 3 ELSE month + 9
        doy == ((153 * mp + 2) \div 5) + day - 1
        doe == yoe * 365 + (yoe \div 4) - (yoe \div 100) + doy
    IN  era * 146097 + doe - 719468

MonthLengths == <<31, 28, 31, 30, 31, 30, 31, 31, 30, 31, 30, 31>>

\* the six numbers are a date and a time of day
ValidFields(f) ==
    /\ f[1] \in 1..9999
    /\ f[2] \in 1..12
    /\ f[3] >= 1
    /\ f[3] <= IF f[2] = 2 /\ f[1] % 4 = 0 /\ (f[1] % 100 # 0 \/ f[1] % 400 = 0)
               THEN 29 ELSE MonthLengths[f[2]]
    /\ f[4] \in 0..23
    /\ f[5] \in 0..59
    /\ f[6] \in 0..59

\* the instant the six numbers name, as session_start_unix records it
FieldsInstant(f) ==
    [s  |-> DaysFromEpoch(f[1], f[2], f[3]) * 86400
            + f[4] * 3600 + f[5] * 60 + f[6],
     us |-> 0]

\* the texts at the six fixed positions of the second and third part
FieldTexts ==
    <<Slice(StemParts[2], 0, 4), Slice(StemParts[2], 4, 6),
      Slice(StemParts[2], 6, 8), Slice(StemParts[3], 0, 2),
      Slice(StemParts[3], 2, 4), Slice(StemParts[3], 4, 6)>>

\* the stem is prefix_YYYYMMDD_HHMMSS: at least three parts, the second
\* made of eight digits and the third of six, naming a date and a time
WellFormedName ==
    /\ Len(StemParts) >= 3
    /\ Len(StemParts[2]) = 8
    /\ Len(StemParts[3]) = 6
    /\ \A k \in 1..8 : IsDigit(StemParts[2][k])
    /\ \A k \in 1..6 : IsDigit(StemParts[3][k])
    /\ ValidFields([k \in 1..6 |-> DecimalValue(FieldTexts[k])])

\* the stem has at least three parts and int() accepts the six texts at
\* the fixed positions, which name a date and a time
PositionalName ==
    /\ Len(StemParts) >= 3
    /\ \A k \in 1..6 : PyInt(FieldTexts[k]).ok
    /\ ValidFields([k \in 1..6 |-> PyInt(FieldTexts[k]).value])

\* C17 as stated: session_start is the time in the file name when the name
\* is a well-formed prefix_YYYYMMDD_HHMMSS and the file's modification
\* time in every other case.
CE_C17 ==
    SessionReturned =>
       session_metadata.session_start_unix =
          IF WellFormedName
          THEN FieldsInstant([k \in 1..6 |-> DecimalValue(FieldTexts[k])])
          ELSE Timestamp(audio_file.mtime)

\* C17 amended: the name is read by position.  When the stem has at least
\* three underscore-separated parts and int() accepts characters 1-4, 5-6,
\* 7-8 of the second part and 1-2, 3-4, 5-6 of the third part as a valid
\* date and time, session_start is that date and time, whatever follows
\* those characters or parts; in every other case it is the file's
\* modification time.  The resolution never raises: a call fails only for
\* a missing or unreadable file.
Thm_C17 ==
    /\ audio_file # None =>
          (session_error # "" <=> ~(audio_file.exists /\ audio_file.wav_ok))
    /\ SessionReturned =>
          session_metadata.session_start_unix =
             IF PositionalName
             THEN FieldsInstant([k \in 1..6 |-> PyInt(FieldTexts[k]).value])
             ELSE Timestamp(audio_file.mtime)

\* radio_20251201_140000xyz resolved to 2025-12-01 14:00:00
Witness_C17 ==
    /\ SessionReturned
    /\ Len(StemParts) = 3
    /\ Len(StemParts[3]) = 9
    /\ StemParts[3][7] = "x"
    /\ session_metadata.session_start_unix =
          [s |-> 20423 * 86400 + 50400, us |-> 0]
    /\ session_metadata.session_start_time =
          [date |-> 739586, hh |-> 14, mm |-> 0, ss |-> 0, ms |-> 0]

\* C18: a call that returns reports the caller's session_id whenever one
\* is given (the empty string included) and draws no identifier then; with
\* no session_id given it draws one identifier, different from every
\* identifier drawn before, and reports it.
Thm_C18 ==
    [][session_error' = "" =>
          IF session_id_arg' # None
          THEN /\ session_metadata'.session_id = session_id_arg'[1]
               /\ uuid_issued' = uuid_issued
          ELSE /\ uuid_issued' = uuid_issued + 1
               /\ session_metadata'.session_id = Uuid(uuid_issued')
               /\ \A k \in 1..uuid_issued :
                     session_metadata'.session_id # Uuid(k)]_vars

\* after an identifier has been drawn, a call given the empty string
\* returned the empty string
Witness_C18 ==
    /\ SessionReturned
    /\ uuid_issued = 1
    /\ session_id_arg = <<"">>
    /\ session_metadata.session_id = ""

(***************************************************************************)
(* Recordings without speech, and strategies that cannot be used.          *)
(***************************************************************************)
\* every frame of the recording was classified, none as speech
SilentRecording == AfterScan /\ NoSpeech(1, Len(frames))

\* process_audio_file has returned a dict other than the error dict
VpReturned == vp_pc = "returned" /\ vp_result.status # "error"

UnsupportedAudio ==
    \/ audio_file.sample_rate \notin {8000, 16000, 32000, 48000}
    \/ audio_file.num_channels # 1

\* split_audio has opened the recording
Opened == pc \notin {"idle", "session", "detect"}

\* the strategy VADPreprocessor is left with for a request
StrategyFor(requested, available) ==
    CASE requested = "webrtc" /\ ~available.webrtc -> "energy"
      [] requested = "silero" /\ ~available.silero -> "energy"
      [] requested = "silero" /\ ~available.silero_loads -> "energy"
      [] OTHER -> requested

SameInputsTwice ==
    /\ tl_calls >= 2
    /\ tl_raised = ""
    /\ tl_prev # None
    /\ tl_prev.chunks_info = chunks_info
    /\ tl_prev.session_metadata = session_metadata

LacksKey(chunks) ==
    \E k \in 1..Len(chunks) :
        \/ "offset_ms" \notin DOMAIN chunks[k]
        \/ "duration_ms" \notin DOMAIN chunks[k]
        \/ "chunk_id" \notin DOMAIN chunks[k]

\* C25: a call of create_chunks_timeline on a list in which some chunk
\* lacks offset_ms, duration_ms or chunk_id raises and leaves
\* chunks_timeline.json as it was (absent or with its former content); a
\* call on a list without such a chunk writes a timeline with one entry
\* for every chunk of the list, in the order of the list.
Thm_C25 ==
    [][tl_calls' = tl_calls + 1 =>
          IF LacksKey(chunks_info')
          THEN /\ tl_raised' = "KeyError"
               /\ timeline' = None
               /\ timeline_file' = timeline_file
          ELSE /\ tl_raised' = ""
               /\ timeline_file' = timeline'
               /\ Len(timeline_file'.chunks) = Len(chunks_info')
               /\ \A k \in 1..Len(chunks_info') :
                     timeline_file'.chunks[k].chunk_id =
                         chunks_info'[k].chunk_id]_vars

\* the file of a first call with one chunk survived a second call whose
\* first chunk was complete and whose second chunk lacked duration_ms
Witness_C25 ==
    /\ tl_calls = 2
    /\ tl_raised = "KeyError"
    /\ Len(chunks_info) = 2
    /\ "offset_ms" \in DOMAIN chunks_info[1]
    /\ "duration_ms" \notin DOMAIN chunks_info[2]
    /\ timeline_file # None
    /\ Len(timeline_file.chunks) = 1

(***************************************************************************)
(* Closing a run.                                                          *)
(***************************************************************************)
\* the frames scanned so far end with a speech frame followed by n
\* non-speech frames
TrailingSilence(n) ==
    /\ scan_i >= n + 1
    /\ frames[scan_i - n]
    /\ NoSpeech(scan_i - n + 1, scan_i)

\* C26: in the SPEECH state a run is closed only when the count of
\* consecutive non-speech frames reaches the minimum-silence frame count:
\* while the non-speech frames that follow a speech frame last less than
\* the minimum silence duration, the scan is still in SPEECH.
CE_C26 ==
    \A n \in 1..MaxFrames :
        (pc = "scan" /\ TrailingSilence(n)
            /\ n * frame_duration_ms < min_silence_duration_ms)
        => in_speech

(***************************************************************************)
(* Model and region choice.                                                *)
(***************************************************************************)
\* the supported regions of a model of the default configuration
SupportedRegionsOf(model_id) ==
    LET i == CHOOSE j \in 1..Len(DefaultModels) :
                 DefaultModels[j][1] = model_id
    IN  {DefaultModels[i][2].supported_regions[k] :
            k \in 1..Len(DefaultModels[i][2].supported_regions)}

KnownModels == {DefaultModels[j][1] : j \in 1..Len(DefaultModels)}

\* C29: get_optimal_config returns a model of the configuration and a
\* region among that model's supported regions, with the endpoint of that
\* region, for every model name or alias and every preferred region; an
\* unknown model name gives chirp_3, and for chirp_3 the region alias
\* "global" gives "us".
Thm_C29 ==
    cfg_result # None =>
        /\ cfg_result[1] \in KnownModels
        /\ cfg_result[2] \in SupportedRegionsOf(cfg_result[1])
        /\ cfg_result[3] = cfg_result[2] \o <<"-speech.googleapis.com">>
        /\ cfg_model_arg = <<<<"u", "n", "k", "n", "o", "w", "n", "_", "m", "o", "d", "e", "l">>>> => cfg_result[1] = <<"c", "h", "i", "r", "p", "_", "3">>
        /\ (cfg_region_arg = <<<<" ", "g", "l", "o", "b", "a", "l", " ">>>> /\ cfg_result[1] = <<"c", "h", "i", "r", "p", "_", "3">>) =>
              cfg_result[2] = <<"u", "s">>

\* an unknown model was asked for in a region no model supports
Witness_C29 ==
    /\ cfg_model_arg = <<<<"u", "n", "k", "n", "o", "w", "n", "_", "m", "o", "d", "e", "l">>>>
    /\ cfg_region_arg = <<<<"m", "a", "r", "s">>>>
    /\ cfg_result = <<<<"c", "h", "i", "r", "p", "_", "3">>, <<"u", "s">>, <<"u", "s">> \o <<"-speech.googleapis.com">>>>

(***************************************************************************)
(* Region fallback.                                                        *)
(***************************************************************************)
\* C22: a transcribe_file call asks the service at most once in the
\* configured region and once per fallback region of the model.
CE_C22 == Len(gstt_attempts) <= 1 + Len(FallbackRegions(gstt_model))

\* the call went through the fallback regions and returned an error
FallbackExhausted ==
    /\ gstt_pc = "returned"
    /\ gstt_result.error # None
    /\ Len(gstt_attempts) > 1

\* C28: after a call in which every fallback region failed, location and
\* api_endpoint are what they were before the call.
CE_C28 ==
    FallbackExhausted =>
        /\ gstt_location = gstt_before[1]
        /\ gstt_api_endpoint = gstt_before[2]

(***************************************************************************)
(* Batch inference.                                                        *)
(***************************************************************************)
\* the files of the batch whose recognition failed / did not fail
FailedFiles == {i \in 1..Len(batch_files) : batch_outcomes[i] = "fails"}
RecognisedFiles == {i \in 1..Len(batch_files) : batch_outcomes[i] # "fails"}

\* the entry of the result map under a file's stem
EntryOf(i) ==
    batch_results[CHOOSE k \in 1..Len(batch_results) :
                     batch_results[k][1] = Stem(batch_files[i])][2]

\* C21: after a batch run the result map has an entry for every input
\* file; the entry of a file whose recognition failed is an empty
\* transcript with an error, and the entry of every other file is a result
\* without an error.
CE_C21 ==
    (batch_pc = "returned" /\ batch_files # <<>>) =>
        \A i \in 1..Len(batch_files) :
           /\ \E k \in 1..Len(batch_results) :
                 batch_results[k][1] = Stem(batch_files[i])
           /\ i \in FailedFiles =>
                 /\ "error" \in DOMAIN EntryOf(i)
                 /\ EntryOf(i).transcript = <<>>
           /\ i \in RecognisedFiles => "error" \notin DOMAIN EntryOf(i)

\* C23: in the summary of a batch run error_count is the number of files
\* whose recognition failed, success_count the number of the others, and
\* the two add up to total_files.
CE_C23 ==
    batch_json # None =>
        /\ batch_json.metadata.error_count = Cardinality(FailedFiles)
        /\ batch_json.metadata.success_count = Cardinality(RecognisedFiles)
        /\ batch_json.metadata.success_count
              + batch_json.metadata.error_count
              = batch_json.metadata.total_files

\* C27: the results of a batch over the splitter's chunks, keyed by the
\* stems of the chunk files, give one event per recognised chunk when they
\* are aligned with the splitter's timeline.
CE_C27 ==
    (batch_pc \in {"returned", "raised"} /\ align_pc = "query") =>
        Len(aligned_results.events) = Len(stt_results)

(***************************************************************************)
(* Directory preprocessing.                                                *)
(***************************************************************************)
\* C30: process_directory on a directory with .wav files ends by returning
\* a report with one result per file, each with status success, no_speech
\* or error.
CE_C30 ==
    (dir_pc \in {"returned", "raised"} /\ dir_files # <<>>) =>
        /\ dir_pc = "returned"
        /\ Len(dir_return.files) = Len(dir_files)
        /\ \A i \in 1..Len(dir_files) :
              /\ dir_return.files[i].filename = dir_files[i]
              /\ dir_return.files[i].status
                    \in {"success", "no_speech", "error"}

====
